---- MODULE Spec2Model ----
(***************************************************************************)
(* A model of bluesound-controller: device discovery with its disk cache   *)
(* (controller.py), the HTTP client with retry (network.py, utils.py) and  *)
(* the multi-device commands of the command line (cli.py, main.py), the    *)
(* XML gate and the device queries, the configuration, the keychain, LSDP  *)
(* (lsdp.py) and the threads of the parallel queries.                      *)
(*                                                                         *)
(* An IP string is modelled as a record [o, ws]: o is the tuple of the     *)
(* dotted-decimal fields (<<>> for text that is not dotted decimal), ws is *)
(* TRUE when the text carries surrounding whitespace.                      *)
(***************************************************************************)
EXTENDS Integers, Sequences, FiniteSets, TLC

(* ------------------------------ bounds -------------------------------- *)
MaxFound == 2      \* most addresses one discovery path reports in one scan
MaxCached == 2     \* most entries of a cache file found on disk at start
MaxTime == 2       \* seconds the clock advances beyond Epoch

(* ----------------------- constants of the program --------------------- *)
DISCOVERY_MDNS == "mdns"
DISCOVERY_LSDP == "lsdp"
DISCOVERY_BOTH == "both"

(* time.time() at start; any value larger than every TTL *)
Epoch == 10
(* CACHE_TTL values of the configuration that the model follows *)
TTLValues == {0, 2}
(* DISCOVERY_METHOD values that validate_config_value lets through *)
MethodValues == {DISCOVERY_MDNS, DISCOVERY_LSDP, DISCOVERY_BOTH}

(* ------------------------------ addresses ----------------------------- *)
Ip(a, b, c, d) == [o |-> <<a, b, c, d>>, ws |-> FALSE]
Padded(ip) == [ip EXCEPT !.ws = TRUE]
Garbage == [o |-> <<>>, ws |-> FALSE]

IpB == Ip(192, 168, 1, 9)
IpC == Ip(192, 168, 1, 10)
IpLoop == Ip(127, 0, 0, 1)
IpMcast == Ip(224, 0, 0, 251)
IpReserved == Ip(240, 0, 0, 1)
IpLinkLocal == Ip(169, 254, 1, 1)
IpZero == Ip(0, 0, 0, 0)
IpRange == Ip(192, 168, 1, 256)

(* the texts a resolver, a datagram source or a cache file may hold: one    *)
(* of every kind that validate_ip tells apart                              *)
RawIPs == {IpB, IpC, IpLoop, IpMcast, IpReserved, IpLinkLocal, IpZero,
           IpRange, Garbage, Padded(IpB)}
(* the texts that are combined with each other in one scan or one file *)
MixIPs == {IpB, IpC, IpLoop}

(* ipaddress.IPv4Address(ip) parses: four decimal fields, each 0..255 *)
ParsesAsIPv4(ip) ==
    /\ ~ip.ws
    /\ Len(ip.o) = 4
    /\ \A i \in 1..4 : ip.o[i] \in 0..255

is_loopback(o) == o[1] = 127
is_multicast(o) == o[1] \in 224..239
is_reserved(o) == o[1] \in 240..255
is_link_local(o) == o[1] = 169 /\ o[2] = 254

validate_ip_loopback_ok(ip) ==
    /\ ParsesAsIPv4(ip)
    /\ ip.o # <<0, 0, 0, 0>>
    /\ ~(is_multicast(ip.o) \/ is_reserved(ip.o) \/ is_link_local(ip.o))

validate_ip(ip) ==
    /\ ParsesAsIPv4(ip)
    /\ ip.o # <<0, 0, 0, 0>>
    /\ ~(is_loopback(ip.o) \/ is_multicast(ip.o) \/ is_reserved(ip.o)
           \/ is_link_local(ip.o))

(* str.strip() *)
Strip(ip) == [ip EXCEPT !.ws = FALSE]

(* sanitize_ip: the stripped text when it validates; the set is empty for None *)
sanitize_ip_unchecked(ip) == {Strip(ip)}

sanitize_ip(ip) == IF validate_ip(Strip(ip)) THEN {Strip(ip)} ELSE {}

(* ------------------- sorted() on the address strings ------------------ *)
(* the character codes of the decimal text of n *)
RECURSIVE Digits(_)
Digits(n) == IF n < 10 THEN <<48 + n>> ELSE Digits(n \div 10) \o <<48 + (n % 10)>>

(* the text of a validated address: fields joined by "." (code 46) *)
IpStr(ip) ==
    Digits(ip.o[1]) \o <<46>> \o Digits(ip.o[2]) \o <<46>> \o
    Digits(ip.o[3]) \o <<46>> \o Digits(ip.o[4])

(* Python's str < str: first differing character decides, a prefix is less *)
RECURSIVE StrLess(_, _)
StrLess(s, t) ==
    IF t = <<>> THEN FALSE
    ELSE IF s = <<>> THEN TRUE
    ELSE IF Head(s) # Head(t) THEN Head(s) < Head(t)
    ELSE StrLess(Tail(s), Tail(t))

RECURSIVE SortedList(_)
SortedList(S) ==
    IF S = {} THEN <<>>
    ELSE LET m == CHOOSE x \in S : \A y \in S \ {x} : StrLess(IpStr(x), IpStr(y))
         IN <<m>> \o SortedList(S \ {m})

Range(s) == {s[i] : i \in 1..Len(s)}

(* [x for x in s if P(x)] *)
RECURSIVE FilterValid(_)
FilterValid(s) ==
    IF s = <<>> THEN <<>>
    ELSE IF validate_ip(Head(s)) THEN <<Head(s)>> \o FilterValid(Tail(s))
    ELSE FilterValid(Tail(s))


(* ============================ state =================================== *)
VARIABLES
    ips,         \* BluesoundController.ips, the known-IP list
    cacheFile,   \* content of CACHE_FILE on disk
    now,         \* time.time(), whole seconds
    cfgMethod,   \* config DISCOVERY_METHOD, lower-cased
    cfgTTL,      \* config CACHE_TTL
    run,         \* what the latest discover() call did
    net,         \* one Network.request call: position, attempts, sleeps, result
    cli,         \* one command of the command line: position, targets, events
    online,      \* the devices that answer status queries
    rt,          \* one call of a function wrapped by retry_with_backoff
    rl,          \* a RateLimiter and the thread calling wait_if_needed
    uni,         \* sync_unifi: configuration, client map, client cache, result
    fs,          \* the cache path, its .tmp sibling and the writers' handles
    ctl,         \* one call of a controller query: responses, requests, result
    bt,          \* one Bluetooth mode change: the word or code given, requests
    vol,         \* one volume command: configuration, requests, lines
    mn,          \* one run of main(): arguments, discovery, handlers called
    conf,        \* one Config(): the file found, the data kept
    kc,          \* one set_api_key call: the security commands run, result
    ls,          \* one LSDPDiscovery: the listen window, the packet being parsed, devices
    qu,          \* one queue command: the words typed, the requests sent, lines
    rq,          \* one controller method or one command: the requests it sends
    th,          \* one command with its batch of get_device_info calls on worker threads
    rm           \* the shared RateLimiter and the threads inside wait_if_needed

discVars == <<ips, cacheFile, now, cfgMethod, cfgTTL, run>>
cliVars == <<cli, online>>
auxVars == <<rt, rl, uni, fs>>
appVars == <<ctl, bt, vol, mn, conf, kc>>
extVars == <<ls, qu, rq, th, rm>>
vars == <<ips, cacheFile, now, cfgMethod, cfgTTL, run, net, cli, online,
          rt, rl, uni, fs, ctl, bt, vol, mn, conf, kc,
          ls, qu, rq, th, rm>>

(* ------------------------- the cache file ----------------------------- *)
NoFile == [kind |-> "missing", ts |-> 0, ips |-> <<>>]
(* text that json.load rejects, or a file that cannot be opened *)
Unreadable == [kind |-> "unreadable", ts |-> 0, ips |-> <<>>]
(* {'ts': ts, 'ips': l}; ts = 0 also stands for a record with no 'ts' key, *)
(* which data.get('ts', 0) reads as 0                                       *)
Record(ts, l) == [kind |-> "record", ts |-> ts, ips |-> l]

SeqsUpTo(S, n) == UNION {[1..k -> S] : k \in 0..n}
SubsetsUpTo(S, n) == {T \in SUBSET S : Cardinality(T) <= n}

(* the address lists of the cache files a run may find *)
CachedLists == SeqsUpTo(MixIPs, MaxCached) \cup {<<ip>> : ip \in RawIPs}
(* the cache files a run may find: none, an unreadable one, one without a  *)
(* timestamp, or a record left at Epoch by an earlier run or by an editor  *)
InitialCacheFiles ==
    {NoFile, Unreadable, Record(0, <<IpB>>)} \cup {Record(Epoch, l) : l \in CachedLists}
(* what one discovery path may be told by the network in one scan *)
ScanSets == SubsetsUpTo(MixIPs, MaxFound)

(* time.time() - cached_ts < ttl *)
CacheFresh_inclusive(t, ts, ttl) == t - ts <= ttl

CacheFresh(t, ts, ttl) == t - ts < ttl

(* _load_discovery_cache: [hit, ips]; ips is assigned to self.ips on a hit *)
load_cache_all_or_nothing(file, t, ttl) ==
    IF file.kind # "record" THEN [hit |-> FALSE, ips |-> <<>>]
    ELSE IF ~CacheFresh(t, file.ts, ttl) THEN [hit |-> FALSE, ips |-> <<>>]
    ELSE IF file.ips # <<>> /\ FilterValid(file.ips) = file.ips
         THEN [hit |-> TRUE, ips |-> file.ips]
         ELSE [hit |-> FALSE, ips |-> <<>>]

load_cache_unfiltered(file, t, ttl) ==
    IF file.kind # "record" THEN [hit |-> FALSE, ips |-> <<>>]
    ELSE IF ~CacheFresh(t, file.ts, ttl) THEN [hit |-> FALSE, ips |-> <<>>]
    ELSE IF FilterValid(file.ips) # <<>>
         THEN [hit |-> TRUE, ips |-> file.ips]
         ELSE [hit |-> FALSE, ips |-> <<>>]

_load_discovery_cache(file, t, ttl) ==
    IF file.kind # "record" THEN [hit |-> FALSE, ips |-> <<>>]
    ELSE IF ~CacheFresh(t, file.ts, ttl) THEN [hit |-> FALSE, ips |-> <<>>]
    ELSE LET validated_ips == FilterValid(file.ips)
         IN IF validated_ips # <<>>
            THEN [hit |-> TRUE, ips |-> validated_ips]
            ELSE [hit |-> FALSE, ips |-> <<>>]

(* ------------------------- discovery paths ---------------------------- *)
(* _discover_mdns: raw is the set of address texts the resolver printed    *)
(* for the hosts found; _resolve_hosts keeps what sanitize_ip accepts      *)
_discover_mdns(raw) == UNION {sanitize_ip(ip) : ip \in raw}

(* _discover_lsdp: raw is the set of source addresses of the announces     *)
(* recorded; LSDPDiscovery.discover returns the sanitized ones (an         *)
(* exception gives the empty list)                                         *)
_discover_lsdp(raw) == UNION {sanitize_ip(ip) : ip \in raw}

UseMdns(method) == method \in {DISCOVERY_MDNS, DISCOVERY_BOTH}

UseLsdp_always_with_both(method, found) ==
    method = DISCOVERY_LSDP \/ method = DISCOVERY_BOTH

UseLsdp(method, found) ==
    method = DISCOVERY_LSDP \/ (method = DISCOVERY_BOTH /\ found = {})

(* atomic_write: the file after the call; ok = FALSE is an OSError at the  *)
(* temp-file write or at the rename, which leaves the target as it was     *)
atomic_write(file, data, ok) == IF ok THEN data ELSE file

(* if self.ips: atomic_write(...) *)
WritesCache_always(l) == TRUE

WritesCache(l) == l # <<>>

NoRun == [called |-> FALSE, forced |-> FALSE, cacheRead |-> FALSE, hit |-> FALSE,
          paths |-> <<>>, mdns |-> {}, lsdp |-> {}, write |-> "none"]

(* ===================== Network.request with retry ===================== *)
MAX_RETRIES == 3
RETRY_DELAY_BASE == 1
MAX_RETRY_DELAY == 10

(* the exception classes urlopen and response.read raise, with their base  *)
(* class: urllib.error.HTTPError derives from URLError, URLError from      *)
(* OSError; http.client.HTTPException is no OSError                        *)
ExcBase ==
    [HTTPError |-> "URLError", URLError |-> "OSError", TimeoutError |-> "OSError",
     ConnectionError |-> "OSError", OSError |-> "Exception",
     HTTPException |-> "Exception", Exception |-> "BaseException"]
Raised == {"HTTPError", "URLError", "TimeoutError", "ConnectionError", "OSError",
           "HTTPException"}
(* what one call of _request_impl's body does: a body within the size      *)
(* limit, a body over MAX_XML_SIZE (None is returned), or an exception     *)
Outcomes == {"ok", "too_large"} \cup Raised

(* isinstance(e, c) *)
RECURSIVE IsInstance(_, _)
IsInstance(e, c) ==
    IF e = c THEN TRUE
    ELSE IF e \in DOMAIN ExcBase THEN IsInstance(ExcBase[e], c)
    ELSE FALSE

(* exceptions=(URLError, TimeoutError, ConnectionError, OSError) *)
RetryAllowList == {"URLError", "TimeoutError", "ConnectionError", "OSError"}

(* except exceptions as e: in retry_with_backoff.wrapper *)
Retryable(e) == \E c \in RetryAllowList : IsInstance(e, c)

(* if attempt < max_retries - 1 *)
RetriesLeft(attempt) == attempt < MAX_RETRIES - 1

RECURSIVE Pow2(_)
Pow2(n) == IF n = 0 THEN 1 ELSE 2 * Pow2(n - 1)

Min(a, b) == IF a < b THEN a ELSE b

(* delay = min(base_delay * (2 ** attempt), max_delay) *)
BackoffDelay(attempt) == Min(RETRY_DELAY_BASE * Pow2(attempt), MAX_RETRY_DELAY)

(* the except clauses of Network.request: HTTPError, the transient ones,   *)
(* then Exception                                                          *)
RequestCatches_transient_only(e) ==
    IsInstance(e, "HTTPError") \/ (\E c \in RetryAllowList : IsInstance(e, c))

RequestCatches(e) ==
    \/ IsInstance(e, "HTTPError")
    \/ \E c \in RetryAllowList : IsInstance(e, c)
    \/ IsInstance(e, "Exception")

NetIdle == [pc |-> "idle", attempt |-> 0, outcomes |-> <<>>, sleeps |-> <<>>,
            result |-> "pending"]

(* Network.request: the scheme check, then the first call of the wrapper *)
Request(urlOk) ==
    /\ net.pc = "idle"
    /\ net' = IF urlOk THEN [net EXCEPT !.pc = "call"]
              ELSE [net EXCEPT !.pc = "done", !.result = "none"]
    /\ UNCHANGED <<discVars, cli, online, auxVars, appVars, extVars>>

(* one pass of the loop of retry_with_backoff.wrapper around _request_impl *)
Attempt(o) ==
    /\ net.pc = "call"
    /\ net' = [net EXCEPT
          !.outcomes = Append(@, o),
          !.pc = IF o \in Raised /\ Retryable(o) /\ RetriesLeft(net.attempt)
                 THEN "sleep" ELSE "done",
          !.result = IF o = "ok" THEN "value"
                     ELSE IF o = "too_large" THEN "none"
                     ELSE IF Retryable(o) /\ RetriesLeft(net.attempt) THEN "pending"
                     ELSE IF RequestCatches(o) THEN "none"
                     ELSE "raised"]
    /\ UNCHANGED <<discVars, cli, online, auxVars, appVars, extVars>>

(* time.sleep(delay); continue *)
Backoff ==
    /\ net.pc = "sleep"
    /\ net' = [net EXCEPT !.sleeps = Append(@, BackoffDelay(net.attempt)),
                          !.attempt = @ + 1, !.pc = "call"]
    /\ UNCHANGED <<discVars, cli, online, auxVars, appVars, extVars>>

(* the whole call as a function of what each attempt does: the result of   *)
(* Network.request when the k-th call of _request_impl meets script[k]     *)
RECURSIVE RequestResult(_, _)
RequestResult(script, attempt) ==
    LET o == script[attempt + 1]
    IN IF o = "ok" THEN "value"
       ELSE IF o = "too_large" THEN "none"
       ELSE IF Retryable(o) /\ RetriesLeft(attempt) THEN RequestResult(script, attempt + 1)
       ELSE IF RequestCatches(o) THEN "none"
       ELSE "raised"

(* every result Network.get / Network.post can hand to its caller *)
NetResults == {RequestResult(s, 0) : s \in [1..MAX_RETRIES -> Outcomes]}

(* ===================== retry_with_backoff ============================== *)
(* the largest max_retries tried *)
MaxRetriesBound == 3
(* the decorator's arguments: max_retries (zero and negative included),    *)
(* base_delay and max_delay in tenths of a second, the exceptions tuple    *)
(* and whether an on_retry callback is given                               *)
RetryAllowLists == {{"OSError"}, {"URLError", "TimeoutError"}, {"Exception"}}
RetryConfigs ==
    [max_retries : (-1)..MaxRetriesBound, base_delay : {1, 3}, max_delay : {2, 5},
     exceptions : RetryAllowLists, on_retry : BOOLEAN]
(* what one call of the wrapped function does: return, or raise one of these *)
FuncRaises == {"HTTPError", "TimeoutError", "OSError", "HTTPException",
               "KeyboardInterrupt"}

(* except exceptions as e *)
Caught_everything(e, exceptions) == TRUE

Caught(e, exceptions) == \E c \in exceptions : IsInstance(e, c)

(* if attempt < max_retries - 1 *)
MoreAttempts_one_too_many(attempt, max_retries) == attempt < max_retries

MoreAttempts(attempt, max_retries) == attempt < max_retries - 1

(* delay = min(base_delay * (2 ** attempt), max_delay) *)
delay_uncapped(base_delay, attempt, max_delay) == base_delay * Pow2(attempt)

delay(base_delay, attempt, max_delay) == Min(base_delay * Pow2(attempt), max_delay)

RtIdle == [pc |-> "idle", cfg |-> [max_retries |-> 0, base_delay |-> 1, max_delay |-> 2,
                                   exceptions |-> {"OSError"}, on_retry |-> FALSE],
           attempt |-> 0, outcomes |-> <<>>, sleeps |-> <<>>, callbacks |-> <<>>,
           pending |-> 0, last_exception |-> "None", result |-> "pending"]

(* wrapper is entered: for attempt in range(max_retries); an empty range   *)
(* falls through to raise Exception("Retry failed")                        *)
Wrapper ==
    /\ rt.pc = "idle"
    /\ rt' = IF 0 < rt.cfg.max_retries
             THEN [rt EXCEPT !.pc = "call"]
             ELSE [rt EXCEPT !.pc = "raised", !.result = "Retry failed"]
    /\ UNCHANGED <<discVars, net, cliVars, rl, uni, fs, appVars, extVars>>

(* one pass of the loop body up to time.sleep: the call of func, and for a *)
(* caught exception the delay and the on_retry callback, or the re-raise   *)
CallFunc(o) ==
    /\ rt.pc = "call"
    /\ LET r == [rt EXCEPT !.outcomes = Append(@, o)]
           c == rt.cfg
       IN rt' =
            IF o = "ok" THEN [r EXCEPT !.pc = "returned", !.result = "value"]
            ELSE IF ~Caught(o, c.exceptions)
            THEN [r EXCEPT !.pc = "raised", !.result = o]
            ELSE IF MoreAttempts(rt.attempt, c.max_retries)
            THEN [r EXCEPT !.pc = "sleep", !.last_exception = o,
                           !.pending = delay(c.base_delay, rt.attempt, c.max_delay),
                           !.callbacks = IF c.on_retry THEN Append(@, rt.attempt + 1)
                                         ELSE @]
            ELSE [r EXCEPT !.pc = "raised", !.last_exception = o, !.result = o]
    /\ UNCHANGED <<discVars, net, cliVars, rl, uni, fs, appVars, extVars>>

(* time.sleep(delay); continue: the next pass, or past the end of the loop *)
(* raise last_exception                                                    *)
SleepThenContinue ==
    /\ rt.pc = "sleep"
    /\ LET r == [rt EXCEPT !.sleeps = Append(@, rt.pending), !.pending = 0,
                           !.attempt = @ + 1]
       IN rt' = IF rt.attempt + 1 < rt.cfg.max_retries
                THEN [r EXCEPT !.pc = "call"]
                ELSE [r EXCEPT !.pc = "raised", !.result = rt.last_exception]
    /\ UNCHANGED <<discVars, net, cliVars, rl, uni, fs, appVars, extVars>>

(* ========================= RateLimiter ================================= *)
(* the calls of wait_if_needed made and the last reading of the clock;     *)
(* time is counted in tenths of a second                                   *)
MaxWaits == 3
MaxClock == 4
(* RateLimiter(min_delay) *)
MinDelays == {2, 3}
(* the keys: sanitized device addresses *)
Keys == {"192.168.1.9", "192.168.1.10"}

(* if key in self.last_call: elapsed = now - self.last_call[key] *)
Elapsed_since_any_key(last_call, key, t) ==
    IF DOMAIN last_call = {} THEN [known |-> FALSE, elapsed |-> 0]
    ELSE LET latest == CHOOSE k \in DOMAIN last_call :
                          \A j \in DOMAIN last_call : last_call[j] <= last_call[k]
         IN  [known |-> TRUE, elapsed |-> t - last_call[latest]]

Elapsed(last_call, key, t) ==
    IF key \in DOMAIN last_call THEN [known |-> TRUE, elapsed |-> t - last_call[key]]
    ELSE [known |-> FALSE, elapsed |-> 0]

(* if elapsed < self.min_delay: time.sleep(self.min_delay - elapsed) *)
SleepFor(e, min_delay) ==
    IF e.known /\ e.elapsed < min_delay THEN min_delay - e.elapsed ELSE 0

(* self.last_call[key] = ... *)
SetItem(last_call, key, t) ==
    [k \in DOMAIN last_call \cup {key} |-> IF k = key THEN t ELSE last_call[k]]

RlIdle == [pc |-> "idle", clock |-> 0, min_delay |-> 2, last_call |-> [k \in {} |-> 0],
           key |-> "192.168.1.9", entered |-> 0, pending |-> 0, returns |-> <<>>]

(* wait_if_needed(key) up to the sleep: now = time.time() and the test *)
WaitIfNeeded(key) ==
    /\ rl.pc = "idle"
    /\ Len(rl.returns) < MaxWaits
    /\ LET d == SleepFor(Elapsed(rl.last_call, key, rl.clock), rl.min_delay)
       IN rl' = [rl EXCEPT !.pc = IF d > 0 THEN "sleep" ELSE "record",
                           !.key = key, !.entered = rl.clock, !.pending = d]
    /\ UNCHANGED <<discVars, net, cliVars, rt, uni, fs, appVars, extVars>>

(* time.sleep(d): the thread is suspended for d, or longer *)
TimeSleep(over) ==
    /\ rl.pc = "sleep"
    /\ rl' = [rl EXCEPT !.pc = "record", !.clock = @ + rl.pending + over]
    /\ UNCHANGED <<discVars, net, cliVars, rt, uni, fs, appVars, extVars>>

(* self.last_call[key] = time.time(), and the return *)
RecordCall ==
    /\ rl.pc = "record"
    /\ rl' = [rl EXCEPT !.pc = "idle",
                        !.last_call = SetItem(@, rl.key, rl.clock),
                        !.returns = Append(@, [key |-> rl.key, at |-> rl.clock,
                                               entered |-> rl.entered,
                                               slept |-> rl.pending])]
    /\ UNCHANGED <<discVars, net, cliVars, rt, uni, fs, appVars, extVars>>

(* time passing while the thread does something else *)
ClockAdvance ==
    /\ rl.clock < MaxClock
    /\ rl' = [rl EXCEPT !.clock = @ + 1]
    /\ UNCHANGED <<discVars, net, cliVars, rt, uni, fs, appVars, extVars>>

(* ========================== sync_unifi ================================= *)
(* the calls of sync_unifi in one run, and the clients of one response *)
MaxSyncs == 2
MaxClients == 2
(* UNIFI_ENABLED = 'true', UNIFI_CONTROLLER and UNIFI_API_KEY present *)
UnifiConfigs == [enabled : BOOLEAN, host : BOOLEAN, key : BOOLEAN]
(* the known-IP lists of a run *)
UnifiIpLists == {<<>>, <<IpB>>, SortedList({IpB, IpC})}
(* a client map: IP -> UniFiClient, the client reduced to one field *)
NoClients == [ip \in {} |-> "x"]
ClientMaps == {[ip \in {IpB} |-> "c"], [ip \in {IpC, IpReserved} |-> "c"]}
(* UNIFI_CACHE_FILE: absent, not JSON, or {'ts': ts, 'clients': {...}} *)
UnifiNoFile == [kind |-> "missing", ts |-> 0, clients |-> NoClients]
UnifiUnreadable == [kind |-> "unreadable", ts |-> 0, clients |-> NoClients]
UnifiRecord(ts, clients) == [kind |-> "record", ts |-> ts, clients |-> clients]
UnifiCacheFiles ==
    {UnifiNoFile, UnifiUnreadable}
        \cup {UnifiRecord(ts, m) : ts \in {0, Epoch}, m \in ClientMaps}
(* one element of the response's 'data': its 'ip' (Garbage: missing or not *)
(* an address), a field value, and whether reading its other fields raises *)
ClientEntries ==
    [ip : {IpB, Padded(IpC), IpLoop, Garbage}, v : {"x"}, bad : {FALSE}]
        \cup {[ip |-> IpB, v |-> "x", bad |-> TRUE]}
(* what Network.get hands back: None, empty bytes, bytes that are not the  *)
(* expected JSON, or a client list                                         *)
Fetches ==
    {[kind |-> k, data |-> <<>>] : k \in {"none", "empty", "garbage"}}
        \cup {[kind |-> "json", data |-> d] : d \in SeqsUpTo(ClientEntries, MaxClients)}
Unasked == [kind |-> "unasked", data |-> <<>>]

(* if self.config.get('UNIFI_ENABLED') != 'true' or not self.ips *)
UnifiSkipped_when_disabled_only(cfg, known) == ~cfg.enabled

UnifiSkipped(cfg, known) == ~cfg.enabled \/ known = <<>>

(* if not base or not key *)
UnifiMissingConfig(cfg) == ~cfg.host \/ ~cfg.key

(* the cache check: the file exists, loads, and time.time() - ts < CACHE_TTL *)
UnifiCacheHit(file, t, ttl) == file.kind = "record" /\ t - file.ts < ttl

(* if not resp_bytes *)
FetchFailed_never(fetch) == FALSE

FetchFailed(fetch) == fetch.kind \in {"none", "empty"}

(* the addresses a response reports, stripped, whatever they are *)
Reported(fetch) == {Strip(fetch.data[i].ip) : i \in 1..Len(fetch.data)}

(* temp_map[ip] = UniFiClient(...) *)
SetClient(m, ip, v) == [k \in DOMAIN m \cup {ip} |-> IF k = ip THEN v ELSE m[k]]

(* the loop over raw.get('data', []): entries without a clean, known IP    *)
(* are skipped; an entry that raises ends the loop with the exception      *)
RECURSIVE BuildMap(_, _, _)
BuildMap(data, target_ips, temp_map) ==
    IF data = <<>> THEN [ok |-> TRUE, map |-> temp_map]
    ELSE LET c == Head(data)
             clean == sanitize_ip(c.ip)
         IN IF clean = {} \/ clean \cap target_ips = {}
            THEN BuildMap(Tail(data), target_ips, temp_map)
            ELSE IF c.bad THEN [ok |-> FALSE, map |-> temp_map]
            ELSE BuildMap(Tail(data), target_ips,
                          SetClient(temp_map, CHOOSE ip \in clean : TRUE, c.v))

(* self.unifi_map = temp_map *)
AssignMap_merging(unifi_map, temp_map) ==
    [k \in DOMAIN unifi_map \cup DOMAIN temp_map |->
        IF k \in DOMAIN temp_map THEN temp_map[k] ELSE unifi_map[k]]

AssignMap(unifi_map, temp_map) == temp_map

Outcome(name, n) == [name |-> name, n |-> n]

UniIdle == [cfg |-> [enabled |-> FALSE, host |-> FALSE, key |-> FALSE],
            unifi_map |-> NoClients, cache |-> UnifiNoFile, calls |-> 0,
            result |-> Outcome("none", 0), fetched |-> "unasked", reported |-> {},
            requests |-> 0, prev_map |-> NoClients, prev_cache |-> UnifiNoFile,
            known |-> <<>>]

(* sync_unifi(); fetch is what Network.get returns when it is called and   *)
(* writeOk whether atomic_write gets the cache onto the disk               *)
SyncUnifi(fetch, writeOk) ==
    /\ uni.calls < MaxSyncs
    /\ LET u == [uni EXCEPT !.calls = @ + 1, !.prev_map = uni.unifi_map,
                            !.prev_cache = uni.cache, !.known = ips,
                            !.fetched = "unasked", !.reported = {}, !.requests = 0]
           asked == [u EXCEPT !.fetched = fetch.kind, !.reported = Reported(fetch),
                              !.requests = 1]
           built == BuildMap(fetch.data, Range(ips), NoClients)
       IN IF UnifiSkipped(uni.cfg, ips)
          THEN /\ fetch = Unasked /\ writeOk
               /\ uni' = [u EXCEPT !.result = Outcome("SKIPPED", 0)]
          ELSE IF UnifiMissingConfig(uni.cfg)
          THEN /\ fetch = Unasked /\ writeOk
               /\ uni' = [u EXCEPT !.result = Outcome("MISSING_CONFIG", 0)]
          ELSE IF UnifiCacheHit(uni.cache, now, cfgTTL)
          THEN /\ fetch = Unasked /\ writeOk
               /\ uni' = [u EXCEPT !.result = Outcome("CACHED", 0),
                                   !.unifi_map = uni.cache.clients]
          ELSE /\ fetch # Unasked
               /\ IF FetchFailed(fetch)
                  THEN writeOk /\ uni' = [asked EXCEPT !.result = Outcome("ERROR_FETCH", 0)]
                  ELSE IF fetch.kind # "json" \/ ~built.ok
                  THEN writeOk /\ uni' = [asked EXCEPT !.result = Outcome("ERROR_PARSE", 0)]
                  ELSE LET m == AssignMap(uni.unifi_map, built.map)
                       IN uni' = [asked EXCEPT
                             !.unifi_map = m,
                             !.cache = atomic_write(@, UnifiRecord(now, built.map), writeOk),
                             !.result = Outcome("SUCCESS", Cardinality(DOMAIN built.map))]
    /\ UNCHANGED <<discVars, net, cliVars, rt, rl, fs, appVars, extVars>>

(* discover() between two calls: another known-IP list *)
KnownIpsChange(l) ==
    /\ ips # l
    /\ ips' = l
    /\ UNCHANGED <<cacheFile, now, cfgMethod, cfgTTL, run, net, cliVars, auxVars, appVars, extVars>>

(* ========================= atomic_write ================================ *)
(* the calls of atomic_write one invocation makes *)
MaxWrites == 2
(* the program invocations that may write the same file *)
Writers == {"w1", "w2"}
(* json.dump(data, f) reaches the file as a sequence of pieces *)
Data == [w1 |-> <<"a1", "a2">>, w2 |-> <<"b1", "b2">>]
OldData == <<"o1", "o2">>
(* what a reader of a name finds: no file, or the bytes of its inode *)
Absent == [exists |-> FALSE, bytes |-> <<>>]
Holding(bytes) == [exists |-> TRUE, bytes |-> bytes]
View(f, inode) == IF inode = 0 THEN Absent ELSE Holding(f.content[inode])

(* write() at the handle's offset: overwrites, appends, or leaves a hole   *)
(* of zero bytes when the file was truncated below the offset              *)
WriteAt(bytes, off, piece) ==
    [i \in 1..(IF off + 1 > Len(bytes) THEN off + 1 ELSE Len(bytes)) |->
        IF i = off + 1 THEN piece
        ELSE IF i <= Len(bytes) THEN bytes[i] ELSE "nul"]

(* if os.path.exists(tmp_path): os.remove(tmp_path), OSError passed over *)
AfterCleanup_keep(tmp, ok) == tmp

AfterCleanup(tmp, ok) == IF ok THEN 0 ELSE tmp

WriterIdle == [pc |-> "idle", calls |-> 0, fd |-> 0, off |-> 0, outcome |-> "none",
               before |-> Absent, removed |-> TRUE]

(* path and tmp name an inode (0: no such file); content[i] is inode i *)
FsIdle == [path |-> 0, tmp |-> 0, content |-> <<>>, active |-> {},
           w |-> [x \in Writers |-> WriterIdle]]

(* atomic_write is entered: open(tmp_path, 'w') creates the file or        *)
(* truncates the one that is there, or fails                               *)
OpenTmp(x, ok) ==
    /\ x \in fs.active
    /\ fs.w[x].pc \in {"idle", "done"}
    /\ fs.w[x].calls < MaxWrites
    /\ LET me == [fs.w[x] EXCEPT !.calls = @ + 1, !.before = View(fs, fs.path),
                                 !.outcome = "none", !.off = 0, !.removed = TRUE]
       IN fs' =
           IF ~ok THEN [fs EXCEPT !.w[x] = [me EXCEPT !.pc = "cleanup", !.fd = 0]]
           ELSE IF fs.tmp # 0
           THEN [fs EXCEPT !.content[fs.tmp] = <<>>,
                           !.w[x] = [me EXCEPT !.pc = "write", !.fd = fs.tmp]]
           ELSE [fs EXCEPT !.content = Append(@, <<>>),
                           !.tmp = Len(fs.content) + 1,
                           !.w[x] = [me EXCEPT !.pc = "write",
                                               !.fd = Len(fs.content) + 1]]
    /\ UNCHANGED <<discVars, net, cliVars, rt, rl, uni, appVars, extVars>>

(* json.dump: one piece goes to the file, or the write fails; leaving the  *)
(* with block closes the file                                              *)
WritePiece(x, ok) ==
    /\ fs.w[x].pc = "write"
    /\ LET me == fs.w[x]
       IN fs' =
           IF ~ok THEN [fs EXCEPT !.w[x].pc = "cleanup"]
           ELSE [fs EXCEPT
                   !.content[me.fd] = WriteAt(@, me.off, Data[x][me.off + 1]),
                   !.w[x].off = @ + 1,
                   !.w[x].pc = IF me.off + 1 = Len(Data[x]) THEN "replace" ELSE "write"]
    /\ UNCHANGED <<discVars, net, cliVars, rt, rl, uni, appVars, extVars>>

(* os.replace(tmp_path, filepath): fails when told to or when tmp is gone *)
Replace(x, ok) ==
    /\ fs.w[x].pc = "replace"
    /\ fs' = IF ok /\ fs.tmp # 0
             THEN [fs EXCEPT !.path = fs.tmp, !.tmp = 0,
                             !.w[x].pc = "done", !.w[x].outcome = "completed"]
             ELSE [fs EXCEPT !.w[x].pc = "cleanup"]
    /\ UNCHANGED <<discVars, net, cliVars, rt, rl, uni, appVars, extVars>>

(* except OSError: the error is logged and tmp removed if it is there *)
Cleanup(x, ok) ==
    /\ fs.w[x].pc = "cleanup"
    /\ (fs.tmp = 0 => ok)
    /\ fs' = [fs EXCEPT !.tmp = AfterCleanup(@, ok),
                        !.w[x].pc = "done", !.w[x].outcome = "failed",
                        !.w[x].removed = ok]
    /\ UNCHANGED <<discVars, net, cliVars, rt, rl, uni, appVars, extVars>>

(* ================ the XML gate and the device queries ================= *)
MAX_XML_SIZE == 1048576
MAX_XML_DEPTH == 20
MAX_XML_ELEMENTS == 10000
MAX_XML_ATTRIBUTES == 100

(* A payload, what Network.get hands back, is a record. kind is "none"     *)
(* (None), "empty" (b''), "blank" (whitespace only) or "text"; size is     *)
(* len(xml_data); parse is what ET.fromstring does with it, "tree" or the  *)
(* exception it raises. The tree is a root with `attrs` attributes and     *)
(* `text` characters of direct text, `leaves` childless children and a     *)
(* chain of `spine` elements nested one inside the other below the root.   *)
(* volume is the text of the <volume> child and name the name attribute,   *)
(* both <<>> when the document has none; childAttrs is the largest number  *)
(* of attributes on an element other than the root.                        *)
Payload(kind, size, parse, spine, leaves, attrs, text) ==
    [kind |-> kind, size |-> size, parse |-> parse, spine |-> spine,
     leaves |-> leaves, attrs |-> attrs, text |-> text,
     volume |-> <<>>, name |-> <<>>, childAttrs |-> 0]

NoReply == Payload("none", 0, "tree", 0, 0, 0, 0)
EmptyReply == Payload("empty", 0, "tree", 0, 0, 0, 0)

Elements(doc) == 1 + doc.leaves + doc.spine
(* len(root): the number of children of the root *)
Children(doc) == doc.leaves + (IF doc.spine > 0 THEN 1 ELSE 0)
(* the fewest bytes that spell the tree: <a/> per element, a="" per        *)
(* attribute, one byte or more per character                               *)
MinSize(doc) == 4 * Elements(doc) + 5 * doc.attrs + doc.text

(* what ET.fromstring(xml_data, parser=parser) does *)
ParseOutcomes == {"tree", "ParseError", "LookupError", "MemoryError", "RecursionError"}

(* except ET.ParseError / RecursionError / MemoryError / Exception *)
GateCatches(e) ==
    \/ e \in {"ParseError", "RecursionError", "MemoryError"}
    \/ e \in {"LookupError"}

(* if depth > MAX_XML_DEPTH *)
DepthExceeded_at_limit(depth) == depth >= MAX_XML_DEPTH

DepthExceeded(depth) == depth > MAX_XML_DEPTH

(* element_count[0] += 1; if element_count[0] > MAX_XML_ELEMENTS *)
CountExceeded(count) == count > MAX_XML_ELEMENTS

Rejected == 0 - 1

(* check_depth on the element at `depth` that heads a chain with `below`   *)
(* more elements inside it, `count` elements having been counted before:   *)
(* the count afterwards, Rejected for False                                *)
RECURSIVE check_depth(_, _, _)
check_depth(below, depth, count) ==
    IF DepthExceeded(depth) THEN Rejected
    ELSE IF CountExceeded(count + 1) THEN Rejected
    ELSE IF below = 0 THEN count + 1
    ELSE check_depth(below - 1, depth + 1, count + 1)

(* check_depth(root, 0, element_count): the root, then its childless       *)
(* children at depth 1, the first of them to push the count over the limit *)
(* ending the walk, then the chain                                         *)
TreeWithinLimits(doc) ==
    LET root == IF DepthExceeded(0) \/ CountExceeded(1) THEN Rejected ELSE 1
        leaves == IF root = Rejected THEN Rejected
                  ELSE IF doc.leaves = 0 THEN root
                  ELSE IF DepthExceeded(1) \/ CountExceeded(root + doc.leaves)
                      THEN Rejected
                  ELSE root + doc.leaves
        chain == IF leaves = Rejected THEN Rejected
                 ELSE IF doc.spine = 0 THEN leaves
                 ELSE check_depth(doc.spine - 1, 1, leaves)
    IN chain # Rejected

(* if len(root.attrib) > MAX_XML_ATTRIBUTES * 2 *)
TooManyAttributes(doc) == doc.attrs > MAX_XML_ATTRIBUTES * 2
(* if root.text and len(root.text) > MAX_XML_SIZE // 10 *)
TooMuchText(doc) == doc.text > 0 /\ doc.text > MAX_XML_SIZE \div 10

(* _safe_parse_xml: "root" for the element, "None", or "raised" *)
_safe_parse_xml(doc) ==
    IF doc.kind \in {"none", "empty"} THEN "None"
    ELSE IF doc.size > MAX_XML_SIZE THEN "None"
    ELSE IF doc.kind = "blank" THEN "None"
    ELSE IF doc.parse # "tree"
        THEN IF GateCatches(doc.parse) THEN "None" ELSE "raised"
    ELSE IF ~TreeWithinLimits(doc) THEN "None"
    ELSE IF TooManyAttributes(doc) THEN "None"
    ELSE IF TooMuchText(doc) THEN "None"
    ELSE "root"

(* the payloads _safe_parse_xml is tried on: every limit from both sides *)
GateSizes == {40, MAX_XML_SIZE - 1, MAX_XML_SIZE, MAX_XML_SIZE + 1}
GateSpines == {0, 1, MAX_XML_DEPTH - 1, MAX_XML_DEPTH, MAX_XML_DEPTH + 1,
               MAX_XML_DEPTH + 5}
GateLeaves == {0, 1, MAX_XML_ELEMENTS - MAX_XML_DEPTH - 2,
               MAX_XML_ELEMENTS - MAX_XML_DEPTH - 1,
               MAX_XML_ELEMENTS - MAX_XML_DEPTH,
               MAX_XML_ELEMENTS - 1, MAX_XML_ELEMENTS}
GateAttrs == {0, 2, MAX_XML_ATTRIBUTES * 2, MAX_XML_ATTRIBUTES * 2 + 1}
GateTexts == {0, 5, MAX_XML_SIZE \div 10, MAX_XML_SIZE \div 10 + 1}

GateTrees ==
    {d \in {Payload("text", s, "tree", sp, l, a, t) :
              s \in GateSizes, sp \in GateSpines, l \in GateLeaves,
              a \in GateAttrs, t \in GateTexts} : d.size >= MinSize(d)}

(* len(child.attrib) of the child of the root that has most attributes *)
WithChildAttributes(doc, n) == [doc EXCEPT !.childAttrs = n]
GateChildAttrs ==
    {MAX_XML_ATTRIBUTES, MAX_XML_ATTRIBUTES + 1, MAX_XML_ATTRIBUTES * 2 + 1}

GatePayloads ==
    GateTrees
    \cup {WithChildAttributes(Payload("text", MAX_XML_SIZE - 1, "tree", 0, 1, a, 0), n) :
            a \in {0, MAX_XML_ATTRIBUTES * 2}, n \in GateChildAttrs}
    \cup {NoReply, EmptyReply}
    \cup {Payload("blank", s, "tree", 0, 0, 0, 0) : s \in {1, MAX_XML_SIZE + 1}}
    \cup {Payload("text", s, e, 0, 0, 0, 0) :
            s \in {10, MAX_XML_SIZE + 1}, e \in ParseOutcomes \ {"tree"}}

(* ---------------------------- int(text) ------------------------------- *)
(* a text is the tuple of its character codes *)
IsDigit(c) == c \in 48..57

RECURSIVE LStrip(_)
LStrip(s) == IF s # <<>> /\ Head(s) = 32 THEN LStrip(Tail(s)) ELSE s
RECURSIVE RStrip(_)
RStrip(s) ==
    IF s # <<>> /\ s[Len(s)] = 32 THEN RStrip(SubSeq(s, 1, Len(s) - 1)) ELSE s

RECURSIVE DecimalValue(_)
DecimalValue(s) ==
    IF s = <<>> THEN 0
    ELSE 10 * DecimalValue(SubSeq(s, 1, Len(s) - 1)) + (s[Len(s)] - 48)

(* int(text): surrounding blanks dropped, an optional sign, then digits    *)
(* only; anything else is a ValueError                                     *)
int(text) ==
    LET s == RStrip(LStrip(text))
        signed == s # <<>> /\ Head(s) \in {43, 45}
        body == IF signed THEN Tail(s) ELSE s
    IN IF body = <<>> \/ \E i \in 1..Len(body) : ~IsDigit(body[i])
       THEN [ok |-> FALSE, v |-> 0]
       ELSE [ok |-> TRUE,
             v |-> IF signed /\ Head(s) = 45 THEN 0 - DecimalValue(body)
                   ELSE DecimalValue(body)]

(* ------------------------- the list queries --------------------------- *)
(* bool(root): an Element is true when it has children *)
Truthy(doc) == Children(doc) > 0

ListOps == {"get_queue", "get_inputs", "get_presets"}
Endpoint(op) ==
    CASE op = "get_queue" -> "/Queue"
      [] op = "get_inputs" -> "/AudioInputs"
      [] op = "get_presets" -> "/Presets"
      [] op = "SyncStatus" -> "/SyncStatus"
      [] op = "Status" -> "/Status"
      [] op = "uptime" -> "/diagnostics"

(* PlayerStatus(ip=ip): the fields of the dataclass that the model follows *)
PlayerStatus(ip) ==
    [ip |-> ip, status |-> "offline", name |-> "Unknown", volume |-> 0,
     state |-> "stop", uptime |-> "N/A"]

CtlIdle ==
    [op |-> "none", ip |-> Garbage, res |-> <<>>, out |-> "-", items |-> 0,
     requests |-> <<>>, waits |-> 0, snap |-> PlayerStatus(Garbage)]

(* get_queue, get_inputs, get_presets: the value returned for the reply    *)
(* `doc`, "list" with the number of entries or "None"                      *)
ListQuery(op, ip, doc) ==
    LET san == sanitize_ip(ip)
        addr == CHOOSE a \in san : TRUE
        root == _safe_parse_xml(doc)
        listed == san # {} /\ doc.kind \notin {"none", "empty"}
                    /\ root = "root" /\ Truthy(doc)
    IN [op |-> op, ip |-> ip,
        res |-> IF san = {} THEN <<>> ELSE <<doc>>,
        out |-> IF listed THEN "list" ELSE "None",
        items |-> IF listed THEN doc.leaves ELSE 0,
        requests |-> IF san = {} THEN <<>>
                     ELSE <<[ip |-> addr, path |-> Endpoint(op)]>>,
        waits |-> IF san # {} /\ op = "get_presets" THEN 1 ELSE 0,
        snap |-> PlayerStatus(Garbage)]

(* the replies to /Queue, /AudioInputs and /Presets: Network.get never     *)
(* returns more than MAX_XML_SIZE bytes                                    *)
ListReplies ==
    {NoReply, EmptyReply,
     Payload("blank", 3, "tree", 0, 0, 0, 0),
     Payload("text", 10, "ParseError", 0, 0, 0, 0),
     Payload("text", 11, "tree", 0, 0, 0, 0),
     Payload("text", 40, "tree", 0, 0, 1, 0),
     Payload("text", 40, "tree", 0, 0, 0, 5),
     Payload("text", 200, "tree", 0, 1, 0, 0),
     Payload("text", 200, "tree", 0, 2, 1, 0),
     Payload("text", 200, "tree", 1, 0, 0, 0),
     Payload("text", 900, "tree", MAX_XML_DEPTH + 1, 2, 0, 0),
     Payload("text", MAX_XML_SIZE, "tree", 0, MAX_XML_ELEMENTS, 0, 0)}

QueryIPs == {IpB, Padded(IpC), IpLoop, Garbage}

SafeParseXml(doc) ==
    /\ ctl.op = "none"
    /\ ctl' = [CtlIdle EXCEPT !.op = "_safe_parse_xml", !.res = <<doc>>,
                              !.out = _safe_parse_xml(doc)]
    /\ UNCHANGED <<discVars, net, cliVars, auxVars, bt, vol, mn, conf, kc, extVars>>

GetQueue(ip, doc) ==
    /\ ctl.op = "none"
    /\ ctl' = ListQuery("get_queue", ip, doc)
    /\ UNCHANGED <<discVars, net, cliVars, auxVars, bt, vol, mn, conf, kc, extVars>>

GetInputs(ip, doc) ==
    /\ ctl.op = "none"
    /\ ctl' = ListQuery("get_inputs", ip, doc)
    /\ UNCHANGED <<discVars, net, cliVars, auxVars, bt, vol, mn, conf, kc, extVars>>

GetPresets(ip, doc) ==
    /\ ctl.op = "none"
    /\ ctl' = ListQuery("get_presets", ip, doc)
    /\ UNCHANGED <<discVars, net, cliVars, auxVars, bt, vol, mn, conf, kc, extVars>>

(* -------------------------- get_device_info --------------------------- *)
WithName(doc, n) == [doc EXCEPT !.name = <<n>>, !.attrs = 1]
WithVolume(doc, text) == [doc EXCEPT !.volume = <<text>>, !.leaves = @ + 1]

(* the replies to /SyncStatus *)
SyncReplies ==
    {NoReply,
     Payload("text", 10, "ParseError", 0, 0, 0, 0),
     Payload("text", 900, "tree", MAX_XML_DEPTH + 1, 0, 0, 0),
     Payload("text", 30, "tree", 0, 0, 0, 0),
     WithName(Payload("text", 40, "tree", 0, 1, 0, 0), "Speaker")}

(* the texts of a <volume> element: 50, 0, 100, 101, 150, -1, " 7", "ab",  *)
(* 1.5 and the empty text                                                  *)
VolumeTexts ==
    {Digits(50), Digits(0), Digits(100), Digits(101), Digits(150),
     <<45>> \o Digits(1), <<32>> \o Digits(7), <<97, 98>>,
     Digits(1) \o <<46>> \o Digits(5), <<>>}

(* the replies to /Status *)
StatusReplies ==
    {NoReply,
     Payload("text", 10, "ParseError", 0, 0, 0, 0),
     Payload("text", 60, "tree", 0, 2, 0, 0)}
    \cup {WithVolume(Payload("text", 80, "tree", 0, 2, 0, 0), t) : t \in VolumeTexts}

Uptimes == {"N/A", "3 days"}

(* root.findtext('volume', '0') *)
FindVolume(doc) == IF doc.volume = <<>> THEN Digits(0) ELSE doc.volume[1]
(* root.attrib.get('name', 'Unknown') *)
NameAttr(doc) == IF doc.name = <<>> THEN "Unknown" ELSE doc.name[1]

(* status.volume = int(...): the value is stored as it is *)
StoredVolume(v) == v

(* the part of get_device_info that reads the two documents, from the      *)
(* snapshot `st` built so far                                              *)
ReadDocuments(st, sync, status) ==
    LET syncRoot == _safe_parse_xml(sync)
        statusRoot == _safe_parse_xml(status)
        hasSync == sync.kind \notin {"none", "empty"}
        hasStatus == status.kind \notin {"none", "empty"}
        named == IF hasSync THEN [st EXCEPT !.name = NameAttr(sync)] ELSE st
        parsed == int(FindVolume(status))
    IN IF hasSync /\ syncRoot = "None" THEN [st EXCEPT !.status = "xml_error"]
       ELSE IF hasSync /\ syncRoot = "raised" THEN [st EXCEPT !.status = "error"]
       ELSE IF ~hasStatus THEN named
       ELSE IF statusRoot = "None"
           THEN IF named.status = "offline"
                THEN [named EXCEPT !.status = "xml_error"] ELSE named
       ELSE IF statusRoot = "raised" THEN [named EXCEPT !.status = "error"]
       ELSE IF ~parsed.ok THEN [named EXCEPT !.status = "value_error"]
       ELSE [named EXCEPT !.volume = StoredVolume(parsed.v)]

GetDeviceInfo(ip, sync, status, uptime) ==
    /\ ctl.op = "none"
    /\ LET san == sanitize_ip(ip)
           addr == CHOOSE a \in san : TRUE
       IN ctl' =
            IF san = {}
            THEN [CtlIdle EXCEPT
                    !.op = "get_device_info", !.ip = ip,
                    !.snap = [PlayerStatus(ip)
                                EXCEPT !.status = "invalid"]]
            ELSE [CtlIdle EXCEPT
                    !.op = "get_device_info", !.ip = ip,
                    !.res = <<sync, status>>,
                    !.requests = <<[ip |-> addr, path |-> Endpoint("SyncStatus")],
                                   [ip |-> addr, path |-> Endpoint("Status")],
                                   [ip |-> addr, path |-> Endpoint("uptime")]>>,
                    !.snap = ReadDocuments(
                                 [PlayerStatus(addr) EXCEPT !.uptime = uptime],
                                 sync, status)]
    /\ UNCHANGED <<discVars, net, cliVars, auxVars, bt, vol, mn, conf, kc, extVars>>

(* one Bluetooth command or one set_bluetooth_mode call, before it starts *)
BtIdle ==
    [op |-> "none", word |-> <<>>, calls |-> <<>>, waits |-> <<>>,
     requests |-> <<>>, lines |-> <<>>, ret |-> FALSE]
(* before the volume command *)
VolIdle ==
    [op |-> "none",
     file |-> [format |-> "absent", read |-> "ok", shape |-> "dict", entries |-> <<>>],
     cmd |-> <<>>, requests |-> <<>>, lines |-> <<>>]
(* main() at its first line *)
MnIdle == [pc |-> "start", command |-> "", scan |-> FALSE, soft |-> FALSE, log |-> <<>>]
(* before Config() *)
ConfIdle ==
    [file |-> [format |-> "absent", read |-> "ok", shape |-> "dict", entries |-> <<>>],
     out |-> "none", data |-> [x \in {} |-> <<>>]]
(* before set_api_key *)
KcIdle ==
    [pc |-> "idle", platform |-> "darwin", key |-> <<>>, entry |-> <<>>,
     log |-> <<>>, ret |-> FALSE]

(* an LSDPDiscovery before its first discover() *)
LsIdle ==
    [pc |-> "idle", runs |-> 0, received |-> 0, devices |-> [x \in {} |-> <<>>],
     data |-> <<>>, source |-> IpZero, offset |-> 0, heard |-> <<>>,
     result |-> <<>>, ended |-> "none"]

(* before the queue command *)
QuIdle ==
    [op |-> "none", words |-> <<>>, up |-> {}, requests |-> <<>>, waits |-> <<>>,
     lines |-> <<>>]

(* before a controller method or a command is called *)
RqIdle == [op |-> "none", requests |-> <<>>]

(* main() before discover(): no worker thread yet *)
ThIdle ==
    [pc |-> "start", cmd |-> "", ips |-> <<>>, workers |-> [x \in {} |-> ""],
     taken |-> <<>>, order |-> <<>>, log |-> <<>>]

(* the process-wide RateLimiter with no call made, and two threads *)
RmIdle ==
    [clock |-> 0, min_delay |-> 2, last_call |-> [k \in {} |-> 0],
     t |-> [x \in {"t1", "t2"} |-> [pc |-> "idle", key |-> "", wake |-> 0]],
     returns |-> <<>>]

(* the parts of the state a specification of another part leaves at rest *)
ExtQuiet ==
    /\ ls = LsIdle
    /\ qu = QuIdle
    /\ rq = RqIdle
    /\ th = ThIdle
    /\ rm = RmIdle

AppQuiet ==
    /\ ctl = CtlIdle /\ bt = BtIdle /\ vol = VolIdle /\ mn = MnIdle
    /\ conf = ConfIdle /\ kc = KcIdle
    /\ ExtQuiet

AuxQuiet ==
    /\ rt = RtIdle /\ rl = RlIdle /\ uni = UniIdle /\ fs = FsIdle
    /\ AppQuiet

(* ================= the commands of the command line =================== *)
(* the players on the network, their addresses and their names *)
Dev == {"d1", "d2", "d3"}
IpD == Ip(10, 0, 0, 5)
DevIp == [d1 |-> IpB, d2 |-> IpC, d3 |-> IpD]
DevName == [d1 |-> <<"K", "i", "t">>, d2 |-> <<"L", "o">>,
            d3 |-> <<"l", "o", "K", "i", "t">>]
(* PlayerStatus.name of a player whose SyncStatus could not be fetched *)
Unknown == <<"U", "n", "k", "n", "o", "w", "n">>
(* an absent optional argument (None); "if not target" treats "" alike *)
None == <<>>
(* the names typed on the command line *)
NameArgs == {None, <<"k", "i", "t">>, <<"L", "O">>, <<"x">>}
(* what the user types at "Confirm (y/N): " *)
Answers == {<<"y">>, <<"Y">>, <<"n">>, <<>>, <<"y", "e", "s">>}

(* str.lower() *)
LowerChar(c) ==
    CASE c = "K" -> "k" [] c = "L" -> "l" [] c = "O" -> "o" [] c = "U" -> "u"
      [] c = "Y" -> "y" [] OTHER -> c
Lower(str) == [i \in 1..Len(str) |-> LowerChar(str[i])]

(* t in str *)
Contains(t, str) ==
    \E i \in 0..(Len(str) - Len(t)) : SubSeq(str, i + 1, i + Len(t)) = t

(* get_device_info(ip).name *)
NameOf(d, up) == IF d \in up THEN DevName[d] ELSE Unknown

(* _get_matching_devices: the players of ctl.ips that have a name and      *)
(* whose name contains the pattern, whatever the case                      *)
Matches(target, up, known) ==
    {d \in Dev : /\ DevIp[d] \in Range(known)
                 /\ NameOf(d, up) # Unknown
                 /\ (target = None \/ Contains(Lower(target), Lower(NameOf(d, up))))}

(* the orders in which as_completed may hand over the matching players *)
Orders(S) == {q \in [1..Cardinality(S) -> S] : Range(q) = S}

(* argparse on "sync <action> [master] [slaves] [target]": the optional    *)
(* positionals are filled from the left                                    *)
SyncArgs(pos) ==
    [master |-> IF Len(pos) >= 1 THEN pos[1] ELSE None,
     slaves |-> IF Len(pos) >= 2 THEN pos[2] ELSE None,
     target |-> IF Len(pos) >= 3 THEN pos[3] ELSE None]
(* the words typed after "sync break" *)
SyncBreakLines ==
    {<<>>} \cup {<<n>> : n \in NameArgs \ {None}}
           \cup {<<<<"x">>, <<"x">>, n>> : n \in NameArgs \ {None}}

(* the commands that confirm first *)
RebootCmds == {"reboot", "soft_reboot"}
(* the commands that loop over the matching players, one request each *)
RunDeviceCmds == {"play", "stop", "skip", "previous", "toggle"}
BatchCmds == RunDeviceCmds \cup
    {"queue_show", "queue_clear", "queue_move", "inputs_set", "inputs_list",
     "bluetooth_set", "bluetooth_get", "presets_play", "presets_list"}
(* pause and volume (with a level or mute word): loops of their own that   *)
(* call Network.get themselves                                             *)
DirectCmds == {"pause", "volume"}
(* the commands whose request is made by a BluesoundController method that *)
(* calls get_rate_limiter().wait_if_needed(ip) first                       *)
RateLimitedCmds ==
    RunDeviceCmds \cup {"queue_clear", "queue_move", "inputs_set", "bluetooth_set",
                        "presets_play", "presets_list", "soft_reboot"}
(* the commands whose arguments are checked after the players are matched: *)
(* queue move needs two integer indices, bluetooth a known mode word       *)
CheckedCmds == {"queue_move", "bluetooth_set"}

(* input("Confirm (y/N): ").lower() != 'y' returns *)
Confirmed_unless_no(a) == Lower(a) # <<"n">>

Confirmed(a) == Lower(a) = <<"y">>

(* for d in targets: the players still to be handled after one *)
RemainingAfter_stop_on_error(todo, ok) == IF ok THEN Tail(todo) ELSE <<>>

RemainingAfter(todo, ok) == Tail(todo)

Event(e, d, ok) == [e |-> e, d |-> d, ok |-> ok]

CliIdle == [pc |-> "idle", cmd |-> "", argv |-> <<>>, target |-> None,
            todo |-> <<>>, events |-> <<>>, answer |-> <<>>]

(* a command up to its loop: match the players, then confirm or check *)
Start(cmd, argv, target, argsOk) ==
    /\ LET targets == Matches(target, online, ips)
           base == [cli EXCEPT !.cmd = cmd, !.argv = argv, !.target = target]
       IN IF targets = {}
          THEN cli' = [base EXCEPT !.pc = "done",
                                   !.events = IF cmd = "volume" THEN <<>>
                                              ELSE <<Event("nomatch", "-", FALSE)>>]
          ELSE \E order \in Orders(targets) :
                  cli' = IF cmd \in RebootCmds
                         THEN [base EXCEPT !.pc = "prompt", !.todo = order,
                                           !.events = <<Event("prompt", "-", FALSE)>>]
                         ELSE IF cmd \in CheckedCmds /\ ~argsOk
                         THEN [base EXCEPT !.pc = "done",
                                           !.events = <<Event("usage", "-", FALSE)>>]
                         ELSE [base EXCEPT !.pc = "loop", !.todo = order]
    /\ UNCHANGED <<discVars, net, online, auxVars, appVars, extVars>>

(* main: reboot [--soft] [target] -> BluesoundCLI.reboot / soft_reboot *)
Reboot(soft, target) ==
    /\ cli.pc = "idle"
    /\ Start(IF soft THEN "soft_reboot" ELSE "reboot", <<target>>, target, TRUE)

(* main: sync break ... -> BluesoundCLI.sync, action "break" *)
SyncBreak(pos) ==
    /\ cli.pc = "idle"
    /\ Start("sync_break", pos, SyncArgs(pos).target, TRUE)

(* play, stop, skip, previous, toggle via _run_device_command; queue,      *)
(* inputs, bluetooth and presets with their own loops                      *)
Batch(cmd, target, argsOk) ==
    /\ cli.pc = "idle"
    /\ (cmd \notin CheckedCmds => argsOk)
    /\ Start(cmd, <<target>>, target, argsOk)

(* pause [target]; volume <cmd> [target], where the target "all" is None *)
Direct(cmd, target) ==
    /\ cli.pc = "idle"
    /\ Start(cmd, <<target>>, target, TRUE)

(* the answer to the confirmation prompt *)
Answer(a) ==
    /\ cli.pc = "prompt"
    /\ cli' = [cli EXCEPT !.answer = a,
                          !.events = Append(@, Event("answer", "-", Confirmed(a))),
                          !.pc = IF Confirmed(a) THEN "loop" ELSE "done"]
    /\ UNCHANGED <<discVars, net, online, auxVars, appVars, extVars>>

(* one pass of the loop over the targets: the request for one player and   *)
(* its result line; res is what Network.get / Network.post returned        *)
ForDevice(res) ==
    /\ cli.pc = "loop"
    /\ LET d == Head(cli.todo)
           sent == sanitize_ip(DevIp[d]) # {}
           ok == sent /\ res = "value"
           rest == RemainingAfter(cli.todo, ok)
           wait == IF sent /\ cli.cmd \in RateLimitedCmds
                   THEN <<Event("wait", d, TRUE)>> ELSE <<>>
           shown == IF cli.cmd = "volume" THEN sent ELSE ok
       IN /\ (~sent => res = "none")
          /\ cli' =
               IF sent /\ res = "raised"
               THEN [cli EXCEPT !.pc = "done", !.todo = <<>>,
                                !.events = @ \o wait \o <<Event("request", d, FALSE)>>]
               ELSE [cli EXCEPT
                        !.todo = rest,
                        !.pc = IF rest = <<>> THEN "done" ELSE "loop",
                        !.events = @ \o wait
                                     \o (IF sent THEN <<Event("request", d, ok)>>
                                         ELSE <<>>)
                                     \o <<Event("line", d, shown)>>]
    /\ UNCHANGED <<discVars, net, online, auxVars, appVars, extVars>>

CliInit ==
    /\ ips = SortedList({DevIp[d] : d \in Dev})
    /\ cacheFile = NoFile
    /\ now = Epoch
    /\ cfgMethod = DISCOVERY_MDNS
    /\ cfgTTL = 0
    /\ run = NoRun
    /\ net = NetIdle
    /\ cli = CliIdle
    /\ online \in SUBSET Dev
    /\ AuxQuiet

CliNext ==
    \/ \E soft \in BOOLEAN, target \in NameArgs : Reboot(soft, target)
    \/ \E pos \in SyncBreakLines : SyncBreak(pos)
    \/ \E cmd \in BatchCmds, target \in NameArgs, argsOk \in BOOLEAN :
          Batch(cmd, target, argsOk)
    \/ \E cmd \in DirectCmds, target \in NameArgs : Direct(cmd, target)
    \/ \E a \in Answers : Answer(a)
    \/ \E res \in NetResults : ForDevice(res)

SpecCli == CliInit /\ [][CliNext]_vars

(* a wrapped function, called once, under every decorator configuration *)
QuietDisc ==
    /\ ips = <<>>
    /\ cacheFile = NoFile
    /\ now = Epoch
    /\ cfgMethod = DISCOVERY_MDNS
    /\ cfgTTL = 0
    /\ run = NoRun
QuietNetCli == net = NetIdle /\ cli = CliIdle /\ online = {}

RetryInit ==
    /\ QuietDisc
    /\ QuietNetCli
    /\ \E c \in RetryConfigs : rt = [RtIdle EXCEPT !.cfg = c]
    /\ rl = RlIdle
    /\ uni = UniIdle
    /\ fs = FsIdle
    /\ AppQuiet

RetryNext ==
    \/ Wrapper
    \/ \E o \in {"ok"} \cup FuncRaises : CallFunc(o)
    \/ SleepThenContinue

SpecRetry == RetryInit /\ [][RetryNext]_vars

(* one thread calling wait_if_needed on one RateLimiter *)
RateInit ==
    /\ QuietDisc
    /\ QuietNetCli
    /\ rt = RtIdle
    /\ \E m \in MinDelays : rl = [RlIdle EXCEPT !.min_delay = m]
    /\ uni = UniIdle
    /\ fs = FsIdle
    /\ AppQuiet

RateNext ==
    \/ \E key \in Keys : WaitIfNeeded(key)
    \/ \E over \in 0..1 : TimeSleep(over)
    \/ RecordCall
    \/ ClockAdvance

SpecRate == RateInit /\ [][RateNext]_vars

NetInit ==
    /\ ips = <<>>
    /\ cacheFile = NoFile
    /\ now = Epoch
    /\ cfgMethod = DISCOVERY_MDNS
    /\ cfgTTL = 0
    /\ run = NoRun
    /\ net = NetIdle
    /\ cli = CliIdle
    /\ online = {}
    /\ AuxQuiet

NetNext ==
    \/ \E urlOk \in BOOLEAN : Request(urlOk)
    \/ \E o \in Outcomes : Attempt(o)
    \/ Backoff

SpecNet == NetInit /\ [][NetNext]_vars


(* ------------------------------ actions ------------------------------- *)
(* BluesoundController.discover(force_refresh): a cache hit *)
DiscoverFromCache(cache) ==
    /\ ips' = cache.ips
    /\ run' = [NoRun EXCEPT !.called = TRUE, !.cacheRead = TRUE, !.hit = TRUE]
    /\ UNCHANGED cacheFile

(* BluesoundController.discover(force_refresh): the scan *)
DiscoverByScan(force, mdnsRaw) ==
    LET mdns_ips == IF UseMdns(cfgMethod) THEN _discover_mdns(mdnsRaw) ELSE {}
        lsdpRuns == UseLsdp(cfgMethod, mdns_ips)
    IN \E lsdpRaw \in (IF lsdpRuns THEN ScanSets ELSE {{}}) :
       LET lsdp_ips == IF lsdpRuns THEN _discover_lsdp(lsdpRaw) ELSE {}
           discovered_ips == mdns_ips \cup lsdp_ips
           validated_ips == {ip \in discovered_ips : validate_ip(ip)}
           new == SortedList(validated_ips)
       IN \E writeOk \in (IF WritesCache(new) THEN BOOLEAN ELSE {TRUE}) :
          /\ ips' = new
          /\ cacheFile' = IF WritesCache(new)
                          THEN atomic_write(cacheFile, Record(now, new), writeOk)
                          ELSE cacheFile
          /\ run' = [called |-> TRUE, forced |-> force, cacheRead |-> ~force,
                     hit |-> FALSE,
                     paths |-> (IF UseMdns(cfgMethod) THEN <<"mdns">> ELSE <<>>)
                               \o (IF lsdpRuns THEN <<"lsdp">> ELSE <<>>),
                     mdns |-> mdns_ips, lsdp |-> lsdp_ips,
                     write |-> IF ~WritesCache(new) THEN "none"
                               ELSE IF writeOk THEN "ok" ELSE "failed"]

(* BluesoundController.discover(force_refresh) *)
Discover(force) ==
    /\ LET cache == IF force THEN [hit |-> FALSE, ips |-> <<>>]
                    ELSE _load_discovery_cache(cacheFile, now, cfgTTL)
       IN IF cache.hit
          THEN DiscoverFromCache(cache)
          ELSE \E mdnsRaw \in (IF UseMdns(cfgMethod) THEN ScanSets ELSE {{}}) :
                  DiscoverByScan(force, mdnsRaw)
    /\ UNCHANGED <<now, cfgMethod, cfgTTL, net, cli, online, auxVars, appVars, extVars>>

(* the clock advances between calls *)
Tick ==
    /\ now < Epoch + MaxTime
    /\ now' = now + 1
    /\ UNCHANGED <<ips, cacheFile, cfgMethod, cfgTTL, run, net, cli, online, auxVars, appVars, extVars>>

Init ==
    /\ ips = <<>>
    /\ cacheFile \in InitialCacheFiles
    /\ now = Epoch
    /\ cfgMethod \in MethodValues
    /\ cfgTTL \in TTLValues
    /\ run = NoRun
    /\ net = NetIdle
    /\ cli = CliIdle
    /\ online = {}
    /\ AuxQuiet

Next ==
    \/ \E force \in BOOLEAN : Discover(force)
    \/ Tick

Spec == Init /\ [][Next]_vars

(* the calls of sync_unifi of one run, under every configuration *)
UnifiInit ==
    /\ ips \in UnifiIpLists
    /\ cacheFile = NoFile
    /\ now = Epoch
    /\ cfgMethod = DISCOVERY_MDNS
    /\ cfgTTL \in TTLValues
    /\ run = NoRun
    /\ QuietNetCli
    /\ rt = RtIdle
    /\ rl = RlIdle
    /\ \E c \in UnifiConfigs, f \in UnifiCacheFiles :
          uni = [UniIdle EXCEPT !.cfg = c, !.cache = f]
    /\ fs = FsIdle
    /\ AppQuiet

UnifiNext ==
    \/ \E fetch \in Fetches \cup {Unasked}, writeOk \in BOOLEAN : SyncUnifi(fetch, writeOk)
    \/ \E l \in UnifiIpLists : KnownIpsChange(l)

SpecUnifi == UnifiInit /\ [][UnifiNext]_vars

(* the cache file before the writers start: not there, or an old record *)
FsStarts ==
    {FsIdle, [FsIdle EXCEPT !.path = 1, !.content = <<OldData>>]}

(* one invocation writing the file *)
WriteInit ==
    /\ QuietDisc
    /\ QuietNetCli
    /\ rt = RtIdle
    /\ rl = RlIdle
    /\ uni = UniIdle
    /\ \E f \in FsStarts : fs = [f EXCEPT !.active = {"w1"}]
    /\ AppQuiet

(* two invocations writing the same file at the same time *)
WritersInit ==
    /\ QuietDisc
    /\ QuietNetCli
    /\ rt = RtIdle
    /\ rl = RlIdle
    /\ uni = UniIdle
    /\ \E f \in FsStarts : fs = [f EXCEPT !.active = Writers]
    /\ AppQuiet

WriteNext ==
    \/ \E x \in Writers, ok \in BOOLEAN : OpenTmp(x, ok)
    \/ \E x \in Writers, ok \in BOOLEAN : WritePiece(x, ok)
    \/ \E x \in Writers, ok \in BOOLEAN : Replace(x, ok)
    \/ \E x \in Writers, ok \in BOOLEAN : Cleanup(x, ok)

SpecWrite == WriteInit /\ [][WriteNext]_vars

SpecWriters == WritersInit /\ [][WriteNext]_vars

(* the controller's queries, one call *)
CtlInit ==
    /\ QuietDisc
    /\ QuietNetCli
    /\ AuxQuiet

CtlNext ==
    \/ \E doc \in GatePayloads : SafeParseXml(doc)
    \/ \E ip \in QueryIPs, doc \in ListReplies : GetQueue(ip, doc)
    \/ \E ip \in QueryIPs, doc \in ListReplies : GetInputs(ip, doc)
    \/ \E ip \in QueryIPs, doc \in ListReplies : GetPresets(ip, doc)
    \/ \E ip \in QueryIPs, sync \in SyncReplies, status \in StatusReplies,
          uptime \in Uptimes : GetDeviceInfo(ip, sync, status, uptime)

SpecCtl == CtlInit /\ [][CtlNext]_vars

(* ========================= Bluetooth mode ============================= *)
(* a word is the tuple of its character codes *)
(* str.lower() on ASCII letters *)
lower(word) ==
    [i \in 1..Len(word) |-> IF word[i] \in 65..90 THEN word[i] + 32 ELSE word[i]]

WordManual == <<109, 97, 110, 117, 97, 108>>            \* manual
WordAuto == <<97, 117, 116, 111>>                        \* auto
WordAutomatic == WordAuto \o <<109, 97, 116, 105, 99>>   \* automatic
WordGuest == <<103, 117, 101, 115, 116>>                 \* guest
WordDisable == <<100, 105, 115, 97, 98, 108, 101>>       \* disable
WordDisabled == WordDisable \o <<100>>                   \* disabled

(* mode_map.get(mode.lower()): NoMode stands for None *)
NoMode == 0 - 1
mode_map(word) ==
    CASE word = WordManual -> 0
      [] word = WordAuto -> 1
      [] word = WordAutomatic -> 1
      [] word = WordGuest -> 2
      [] word = WordDisable -> 3
      [] word = WordDisabled -> 3
      [] OTHER -> NoMode

(* the mode words typed on the command line: the six of the table, some    *)
(* in capitals, and AUTO, Guest, on, off, 3, " auto", guests; <<>> is an    *)
(* absent argument                                                         *)
ModeWords ==
    {WordManual, WordAuto, WordAutomatic, WordGuest, WordDisable, WordDisabled,
     <<65, 85, 84, 79>>, <<71>> \o Tail(WordGuest), <<111, 110>>,
     <<111, 102, 102>>, <<51>>, <<32>> \o WordAuto, WordGuest \o <<115>>, <<>>}

(* the codes set_bluetooth_mode is called with directly *)
ModeCodes == (0 - 2)..5

(* if mode not in (0, 1, 2, 3) *)
ModeAllowed_nonnegative(mode) == mode >= 0

ModeAllowed(mode) == mode \in {0, 1, 2, 3}

(* set_bluetooth_mode(ip, mode) when Network.get gives a reply (ok) or     *)
(* None: the limiter waits, the requests and the value returned            *)
set_bluetooth_mode(ip, mode, ok) ==
    LET san == sanitize_ip(ip)
        addr == CHOOSE a \in san : TRUE
    IN IF san = {} \/ ~ModeAllowed(mode)
       THEN [waits |-> <<>>, requests |-> <<>>, ret |-> FALSE]
       ELSE [waits |-> <<addr>>,
             requests |-> <<[ip |-> addr, path |-> "audiomodes", code |-> mode]>>,
             ret |-> ok]

(* get_bluetooth_mode(ip): one request to /AudioModes, no limiter *)
get_bluetooth_mode(ip) ==
    LET san == sanitize_ip(ip)
        addr == CHOOSE a \in san : TRUE
    IN IF san = {} THEN <<>>
       ELSE <<[ip |-> addr, path |-> "AudioModes", code |-> NoMode]>>

(* the for loop of BluesoundCLI.bluetooth over the targets left, from the  *)
(* record `acc` of what the loop has done so far                           *)
RECURSIVE SetOnTargets(_, _, _, _)
SetOnTargets(targets, code, answering, acc) ==
    IF targets = <<>> THEN acc
    ELSE LET ip == Head(targets)
             r == set_bluetooth_mode(ip, code, ip \in answering)
         IN SetOnTargets(Tail(targets), code, answering,
                [acc EXCEPT !.calls = Append(@, [ip |-> ip, mode |-> code]),
                            !.waits = @ \o r.waits,
                            !.requests = @ \o r.requests,
                            !.lines = Append(@, IF r.ret THEN "SET" ELSE "ERROR")])

RECURSIVE ShowOnTargets(_, _)
ShowOnTargets(targets, acc) ==
    IF targets = <<>> THEN acc
    ELSE ShowOnTargets(Tail(targets),
            [acc EXCEPT !.requests = @ \o get_bluetooth_mode(Head(targets)),
                        !.lines = Append(@, "mode")])

(* the matching players as _get_matching_devices returns them *)
BtTargets == {<<>>, <<IpB>>, <<IpC>>, <<IpB, IpC>>, <<IpC, IpB>>}

(* BluesoundCLI.bluetooth(args) *)
Bluetooth(targets, word, answering) ==
    /\ bt.op = "none"
    /\ LET start == [BtIdle EXCEPT !.op = "bluetooth", !.word = word]
       IN bt' =
            IF targets = <<>> THEN [start EXCEPT !.lines = <<"no match">>]
            ELSE IF word # <<>>
                THEN IF mode_map(lower(word)) = NoMode
                     THEN [start EXCEPT !.lines = <<"invalid mode">>]
                     ELSE SetOnTargets(targets, mode_map(lower(word)),
                                       answering, start)
            ELSE ShowOnTargets(targets, start)
    /\ UNCHANGED <<discVars, net, cliVars, auxVars, ctl, vol, mn, conf, kc, extVars>>

(* BluesoundController.set_bluetooth_mode(ip, mode), called by itself *)
SetBluetoothMode(ip, mode, ok) ==
    /\ bt.op = "none"
    /\ LET r == set_bluetooth_mode(ip, mode, ok)
       IN bt' = [BtIdle EXCEPT !.op = "set_bluetooth_mode",
                               !.calls = <<[ip |-> ip, mode |-> mode]>>,
                               !.waits = r.waits, !.requests = r.requests,
                               !.ret = r.ret]
    /\ UNCHANGED <<discVars, net, cliVars, auxVars, ctl, vol, mn, conf, kc, extVars>>

BtInit ==
    /\ QuietDisc
    /\ QuietNetCli
    /\ AuxQuiet

BtNext ==
    \/ \E targets \in BtTargets, word \in ModeWords, answering \in SUBSET {IpB, IpC} :
          Bluetooth(targets, word, answering)
    \/ \E ip \in QueryIPs, mode \in ModeCodes, ok \in BOOLEAN :
          SetBluetoothMode(ip, mode, ok)

SpecBt == BtInit /\ [][BtNext]_vars

(* =========================== configuration ============================ *)
MIN_VOLUME == 0
MAX_VOLUME == 100
MIN_TIMEOUT == 1
MAX_TIMEOUT == 60
MIN_CACHE_TTL == 0
MAX_CACHE_TTL == 3600

MaxEntries == 2    \* most entries of a configuration file

(* A key is a record [name, cased]: the name in capitals and how the file  *)
(* spells it. Values are texts, tuples of character codes.                 *)
Key(name, cased) == [name |-> name, cased |-> cased]
(* str.upper() and configparser's optionxform (str.lower()) on a key *)
upper(key) == [key EXCEPT !.cased = "upper"]
optionxform(key) == [key EXCEPT !.cased = "lower"]

(* str(n) for an integer *)
str(n) == IF n < 0 THEN <<45>> \o Digits(0 - n) ELSE Digits(n)

TxtTrue == <<116, 114, 117, 101>>              \* true
TxtFalse == <<102, 97, 108, 115, 101>>         \* false
TxtYes == <<121, 101, 115>>                    \* yes
TxtNo == <<110, 111>>                          \* no
TxtMaybe == <<109, 97, 121, 98, 101>>          \* maybe
TxtMdns == <<109, 100, 110, 115>>              \* mdns
TxtLsdp == <<108, 115, 100, 112>>              \* lsdp
TxtBoth == <<98, 111, 116, 104>>               \* both
TxtNone == <<78, 111, 110, 101>>               \* None
TxtService == <<95, 109, 117, 115, 99>>        \* _musc

(* a value of a JSON object: a string s, an integer n, n + 0.5, a boolean  *)
(* (n = 1 for true) or null                                                *)
JsonStr(s) == [t |-> "str", n |-> 0, s |-> s]
JsonInt(n) == [t |-> "int", n |-> n, s |-> <<>>]
JsonFloat(n) == [t |-> "float", n |-> n, s |-> <<>>]
JsonBool(b) == [t |-> "bool", n |-> IF b THEN 1 ELSE 0, s |-> <<>>]
JsonNull == [t |-> "null", n |-> 0, s |-> <<>>]

(* str(v) *)
PyStr(v) ==
    CASE v.t = "str" -> v.s
      [] v.t = "int" -> str(v.n)
      [] v.t = "float" -> str(v.n) \o <<46, 53>>
      [] v.t = "bool" -> IF v.n = 1 THEN <<84>> \o Tail(TxtTrue)
                         ELSE <<70>> \o Tail(TxtFalse)
      [] v.t = "null" -> TxtNone

Max(a, b) == IF a > b THEN a ELSE b

(* validate_volume(n) for an int: max(MIN_VOLUME, min(MAX_VOLUME, n)) *)
validate_volume(n) == Max(MIN_VOLUME, Min(MAX_VOLUME, n))
(* validate_timeout(timeout, min_val, max_val) *)
validate_timeout(n, min_val, max_val) == Max(min_val, Min(max_val, n))

Kept(s) == [ok |-> TRUE, s |-> s]
Dropped == [ok |-> FALSE, s |-> <<>>]

(* validate_config_value(key, value): the text kept, or Dropped for None *)
validate_config_value(key, value) ==
    LET key_upper == upper(key).name
        p == int(value)
    IN CASE key_upper = "DISCOVERY_TIMEOUT" ->
              IF ~p.ok \/ p.v < 1 THEN Dropped
              ELSE Kept(str(validate_timeout(p.v, 1, 60)))
         [] key_upper = "CACHE_TTL" ->
              IF ~p.ok THEN Dropped
              ELSE Kept(str(Max(MIN_CACHE_TTL, Min(MAX_CACHE_TTL, p.v))))
         [] key_upper = "DEFAULT_SAFE_VOL" ->
              IF ~p.ok THEN Dropped ELSE Kept(str(validate_volume(p.v)))
         [] key_upper = "UNIFI_ENABLED" ->
              IF lower(value) \in {TxtTrue, TxtFalse, Digits(1), Digits(0), TxtYes, TxtNo}
              THEN IF lower(value) \in {TxtTrue, Digits(1), TxtYes}
                   THEN Kept(TxtTrue) ELSE Kept(TxtFalse)
              ELSE Dropped
         [] key_upper = "DISCOVERY_METHOD" ->
              IF lower(value) \in {TxtMdns, TxtLsdp, TxtBoth}
              THEN Kept(lower(value)) ELSE Kept(TxtMdns)
         [] OTHER -> Kept(value)

(* validate_config_value(k, str(v)) *)
JsonEntry(key, v) == validate_config_value(key, PyStr(v))

(* d[k] = v *)
Store(d, k, v) == [x \in DOMAIN d \cup {k} |-> IF x = k THEN v ELSE d[x]]
EmptyDict == [x \in {} |-> <<>>]

(* for k, v in config_data.items(): ... validated_data[k.upper()] = ... *)
RECURSIVE LoadJson(_, _)
LoadJson(entries, data) ==
    IF entries = <<>> THEN data
    ELSE LET e == Head(entries)
             validated == JsonEntry(e.k, e.v)
         IN LoadJson(Tail(entries),
                     IF validated.ok THEN Store(data, upper(e.k), validated.s)
                     ELSE data)

(* v.strip('"').strip("'") *)
RECURSIVE StripChar(_, _)
StripChar(s, c) ==
    IF s # <<>> /\ Head(s) = c THEN StripChar(Tail(s), c)
    ELSE IF s # <<>> /\ s[Len(s)] = c THEN StripChar(SubSeq(s, 1, Len(s) - 1), c)
    ELSE s
Unquote(s) == StripChar(StripChar(s, 34), 39)

(* {k.upper(): v.strip('"').strip("'") for k, v in parser["root"].items()} *)
RECURSIVE LoadLegacy(_, _)
LoadLegacy(entries, data) ==
    IF entries = <<>> THEN data
    ELSE LET e == Head(entries)
         IN LoadLegacy(Tail(entries),
                       Store(data, upper(optionxform(e.k)), Unquote(e.v.s)))

(* parser.read_string raises DuplicateOptionError for a repeated option *)
Repeats(entries) ==
    \E i, j \in 1..Len(entries) :
        i # j /\ optionxform(entries[i].k) = optionxform(entries[j].k)

(* what open() and the parser of the format do with the file: "ok", or     *)
(* the exception raised                                                    *)
ReadOutcomes == {"ok", "OSError", "ParseError", "UnicodeDecodeError"}
(* except (json.JSONDecodeError, OSError) / (configparser.Error, OSError)  *)
LoadCatches(e) == e \in {"OSError", "ParseError"}
(* the top-level value of a JSON text *)
JsonShapes == {"dict", "list", "number", "string", "null"}

(* the default_config written when no file exists (the keys followed) *)
DefaultEntries ==
    <<[k |-> Key("BLUOS_SERVICE", "upper"), v |-> JsonStr(TxtService)],
      [k |-> Key("DISCOVERY_METHOD", "upper"), v |-> JsonStr(TxtMdns)],
      [k |-> Key("DISCOVERY_TIMEOUT", "upper"), v |-> JsonStr(Digits(5))],
      [k |-> Key("CACHE_TTL", "upper"), v |-> JsonStr(Digits(300))],
      [k |-> Key("DEFAULT_SAFE_VOL", "upper"), v |-> JsonStr(Digits(14))],
      [k |-> Key("UNIFI_ENABLED", "upper"), v |-> JsonStr(TxtFalse)]>>

(* Config._load: [out, data]; out is "raised" when an exception leaves it  *)
_load(file) ==
    IF file.format = "absent"
    THEN IF file.read = "OSError"
         THEN [out |-> "loaded", data |-> EmptyDict]
         ELSE [out |-> "loaded", data |-> LoadJson(DefaultEntries, EmptyDict)]
    ELSE IF file.read # "ok"
    THEN [out |-> IF LoadCatches(file.read) THEN "loaded" ELSE "raised",
          data |-> EmptyDict]
    ELSE IF file.format = "json"
    THEN IF file.shape = "dict"
         THEN [out |-> "loaded", data |-> LoadJson(file.entries, EmptyDict)]
         ELSE [out |-> "raised", data |-> EmptyDict]
    ELSE IF Repeats(file.entries)
         THEN [out |-> "loaded", data |-> EmptyDict]
         ELSE [out |-> "loaded", data |-> LoadLegacy(file.entries, EmptyDict)]

(* Config.get(key, default) for a key other than UNIFI_API_KEY *)
get(data, key, default) ==
    IF upper(key) \in DOMAIN data THEN data[upper(key)] ELSE default

File(format, read, shape, entries) ==
    [format |-> format, read |-> read, shape |-> shape, entries |-> entries]

(* the entries a file may hold: every validated key with values inside,    *)
(* outside and on the edge of its range, not numbers, other spellings      *)
StringEntries ==
    {[k |-> Key(n, c), v |-> JsonStr(s)] :
        n \in {"DEFAULT_SAFE_VOL"}, c \in {"upper", "lower"},
        s \in {Digits(14), Digits(100), Digits(500), <<45>> \o Digits(5),
               TxtMaybe, <<34>> \o Digits(150) \o <<34>>}}
    \cup {[k |-> Key("DISCOVERY_TIMEOUT", "upper"), v |-> JsonStr(s)] :
            s \in {Digits(0), Digits(1), Digits(60), Digits(200), TxtMaybe}}
    \cup {[k |-> Key("CACHE_TTL", "mixed"), v |-> JsonStr(s)] :
            s \in {Digits(0), Digits(3600), Digits(5000), <<45>> \o Digits(5)}}
    \cup {[k |-> Key("UNIFI_ENABLED", "upper"), v |-> JsonStr(s)] :
            s \in {TxtTrue, <<89, 69, 83>>, Digits(0), TxtMaybe}}
    \cup {[k |-> Key("DISCOVERY_METHOD", "upper"), v |-> JsonStr(s)] :
            s \in {TxtLsdp, <<66>> \o Tail(TxtBoth), TxtMaybe}}
    \cup {[k |-> Key("BLUOS_SERVICE", "lower"), v |-> JsonStr(TxtService)]}

TypedEntries ==
    {[k |-> Key("CACHE_TTL", "upper"), v |-> JsonInt(5000)],
     [k |-> Key("DEFAULT_SAFE_VOL", "upper"), v |-> JsonInt(150)],
     [k |-> Key("DEFAULT_SAFE_VOL", "upper"), v |-> JsonFloat(15)],
     [k |-> Key("UNIFI_ENABLED", "upper"), v |-> JsonBool(TRUE)],
     [k |-> Key("DISCOVERY_TIMEOUT", "upper"), v |-> JsonNull]}

EntryLists(S) ==
    {q \in UNION {[1..n -> S] : n \in 0..MaxEntries} :
        \A i, j \in 1..Len(q) : i # j => q[i].k # q[j].k}

ConfigFiles ==
    {File("json", "ok", "dict", q) : q \in EntryLists(StringEntries \cup TypedEntries)}
    \cup {File("json", "ok", s, <<>>) : s \in JsonShapes \ {"dict"}}
    \cup {File("legacy", "ok", "dict", q) : q \in EntryLists(StringEntries)}
    \cup {File(f, r, "dict", <<>>) :
            f \in {"json", "legacy"}, r \in ReadOutcomes \ {"ok"}}
    \cup {File("absent", r, "dict", <<>>) : r \in {"ok", "OSError"}}

(* Config() *)
NewConfig(file) ==
    /\ conf.out = "none"
    /\ conf' = [file |-> file, out |-> _load(file).out, data |-> _load(file).data]
    /\ UNCHANGED <<discVars, net, cliVars, auxVars, ctl, bt, vol, mn, kc, extVars>>

ConfInit ==
    /\ QuietDisc
    /\ QuietNetCli
    /\ AuxQuiet

ConfNext == \E file \in ConfigFiles : NewConfig(file)

SpecConf == ConfInit /\ [][ConfNext]_vars

(* ========================= the volume command ========================= *)
CmdMute == <<109, 117, 116, 101>>              \* mute
CmdUnmute == <<117, 110>> \o CmdMute           \* unmute
CmdReset == <<114, 101, 115, 101, 116>>        \* reset

(* args.cmd: nothing, the three words, +N and -N, N, and texts that are    *)
(* none of these: +10, +200, + , +ab, -10, -200, 0, 100, 101, 150, ab      *)
VolumeCmds ==
    {<<>>, CmdMute, CmdUnmute, CmdReset,
     <<43>> \o Digits(10), <<43>> \o Digits(200), <<43>>, <<43, 97, 98>>,
     <<45>> \o Digits(10), <<45>> \o Digits(200),
     Digits(0), Digits(100), Digits(101), Digits(150), <<97, 98>>}

(* str.isdigit() *)
isdigit(s) == s # <<>> /\ \A i \in 1..Len(s) : IsDigit(s[i])

(* the volumes players report, see get_device_info *)
ReportedVolumes == {0, 50, 100, 150, 0 - 1}
(* the snapshots _get_matching_devices returns *)
VolumeTargets ==
    {<<>>} \cup {<<[ip |-> IpB, volume |-> v]>> : v \in ReportedVolumes}
           \cup {<<[ip |-> IpB, volume |-> 50], [ip |-> IpC, volume |-> 150]>>}

(* the configuration files that differ in DEFAULT_SAFE_VOL only *)
VolumeFiles ==
    {f \in ConfigFiles :
        /\ _load(f).out = "loaded"
        /\ Len(f.entries) <= 1
        /\ \A i \in 1..Len(f.entries) : f.entries[i].k.name = "DEFAULT_SAFE_VOL"}

(* the query of the request for one player: [send, kind, arg, line]; arg   *)
(* is the text after "level=" or "mute="                                   *)
Silent(line) == [send |-> FALSE, kind |-> "none", arg |-> <<>>, line |-> line]
Query(kind, arg, line) == [send |-> TRUE, kind |-> kind, arg |-> arg, line |-> line]

new_cmd(cmd, cur, data) ==
    LET amount == int(Tail(cmd))
    IN IF cmd = <<>> THEN Silent("VOL")
       ELSE IF cmd = CmdMute THEN Query("mute", Digits(1), "MUTED")
       ELSE IF cmd = CmdUnmute THEN Query("mute", Digits(0), "UNMUTED")
       ELSE IF cmd = CmdReset
           THEN Query("level", get(data, Key("DEFAULT_SAFE_VOL", "upper"), Digits(14)),
                      "RESET")
       ELSE IF Head(cmd) = 43
           THEN IF amount.ok
                THEN Query("level", str(validate_volume(cur + amount.v)), "VOL")
                ELSE Silent("Invalid volume increment")
       ELSE IF Head(cmd) = 45
           THEN IF amount.ok
                THEN Query("level", str(validate_volume(cur - amount.v)), "VOL")
                ELSE Silent("Invalid volume decrement")
       ELSE IF isdigit(cmd)
           THEN Query("level", str(validate_volume(int(cmd).v)), "VOL")
       ELSE Silent("")

(* the for loop of BluesoundCLI.volume over the devices left *)
RECURSIVE VolumeLoop(_, _, _, _)
VolumeLoop(devices, cmd, data, acc) ==
    IF devices = <<>> THEN acc
    ELSE LET d == Head(devices)
             q == new_cmd(cmd, d.volume, data)
             san == sanitize_ip(d.ip)
             addr == CHOOSE a \in san : TRUE
         IN VolumeLoop(Tail(devices), cmd, data,
                IF ~q.send
                THEN [acc EXCEPT !.lines = IF q.line = "" THEN @ ELSE Append(@, q.line)]
                ELSE IF san = {}
                THEN [acc EXCEPT !.lines = Append(@, "Invalid IP")]
                ELSE [acc EXCEPT
                        !.requests = Append(@, [ip |-> addr, kind |-> q.kind, arg |-> q.arg]),
                        !.lines = Append(@, q.line)])

(* BluesoundCLI.volume(args), the configuration having been loaded from    *)
(* `file` when the controller was built                                    *)
Volume(file, cmd, devices) ==
    /\ vol.op = "none"
    /\ vol' = VolumeLoop(devices, cmd, _load(file).data,
                         [VolIdle EXCEPT !.op = "volume", !.file = file,
                                         !.cmd = cmd])
    /\ UNCHANGED <<discVars, net, cliVars, auxVars, ctl, bt, mn, conf, kc, extVars>>

VolInit ==
    /\ QuietDisc
    /\ QuietNetCli
    /\ AuxQuiet

VolNext ==
    \E file \in VolumeFiles, cmd \in VolumeCmds, devices \in VolumeTargets :
        Volume(file, cmd, devices)

SpecVol == VolInit /\ [][VolNext]_vars

(* ============================== main() ================================ *)
(* the subcommands registered with the parser *)
Subcommands ==
    {"discover", "status", "diagnose", "volume", "play", "pause", "stop",
     "skip", "previous", "toggle", "queue", "inputs", "bluetooth", "presets",
     "sync", "reboot", "keychain"}
(* sys.argv[1]: a subcommand, nothing at all, --help, --run-code-tests, or *)
(* a word that is no subcommand                                            *)
FirstArgs == Subcommands \cup {"", "--help", "--run-code-tests", "bogus"}

(* the options each subparser declares: --scan and --json on status,       *)
(* --soft on reboot; parse_args() exits on an option given elsewhere       *)
Parses(command, scan, json, soft) ==
    /\ command \in Subcommands
    /\ (scan \/ json) => command = "status"
    /\ soft => command = "reboot"

(* force_refresh of the ctl.discover call *)
Force_scan_only(command, scan) == scan

Force(command, scan) == IF command = "discover" THEN TRUE ELSE scan

(* the BluesoundCLI method the elif chain calls *)
Handler(command, soft) ==
    IF command = "reboot" THEN IF soft THEN "soft_reboot" ELSE "reboot"
    ELSE command

Log(e, arg, force) == [e |-> e, arg |-> arg, force |-> force]

(* main() up to parse_args() *)
ParseArgs(first, scan, json, soft) ==
    /\ mn.pc = "start"
    /\ mn' = IF first = "--run-code-tests"
             THEN [mn EXCEPT !.pc = "exit", !.command = first,
                             !.log = <<Log("run_tests", "", FALSE)>>]
             ELSE IF first \in {"", "--help"}
             THEN [mn EXCEPT !.pc = "exit", !.command = first,
                             !.log = <<Log("handler", "print_help", FALSE)>>]
             ELSE IF ~Parses(first, scan, json, soft)
             THEN [mn EXCEPT !.pc = "exit", !.command = first, !.scan = scan,
                             !.soft = soft,
                             !.log = <<Log("usage_error", "", FALSE)>>]
             ELSE [mn EXCEPT !.pc = "parsed", !.command = first, !.scan = scan,
                             !.soft = soft]
    /\ UNCHANGED <<discVars, net, cliVars, auxVars, ctl, bt, vol, conf, kc, extVars>>

(* ctl = BluesoundController(); cli = BluesoundCLI(ctl) *)
Construct ==
    /\ mn.pc = "parsed"
    /\ mn' = [mn EXCEPT !.pc = "built", !.log = Append(@, Log("construct", "", FALSE))]
    /\ UNCHANGED <<discVars, net, cliVars, auxVars, ctl, bt, vol, conf, kc, extVars>>

(* if args.command == "keychain": pass *)
SkipDiscovery ==
    /\ mn.pc = "built"
    /\ mn.command = "keychain"
    /\ mn' = [mn EXCEPT !.pc = "ready"]
    /\ UNCHANGED <<discVars, net, cliVars, auxVars, ctl, bt, vol, conf, kc, extVars>>

(* ctl.discover(force_refresh=...) is entered *)
BeginDiscovery ==
    /\ mn.pc = "built"
    /\ mn.command # "keychain"
    /\ mn' = [mn EXCEPT !.pc = "discovering",
                        !.log = Append(@, Log("discover", "begin",
                                              Force(mn.command, mn.scan)))]
    /\ UNCHANGED <<discVars, net, cliVars, auxVars, ctl, bt, vol, conf, kc, extVars>>

(* ctl.discover returns *)
EndDiscovery ==
    /\ mn.pc = "discovering"
    /\ mn' = [mn EXCEPT !.pc = "ready",
                        !.log = Append(@, Log("discover", "end",
                                              Force(mn.command, mn.scan)))]
    /\ UNCHANGED <<discVars, net, cliVars, auxVars, ctl, bt, vol, conf, kc, extVars>>

(* the elif chain on args.command *)
Dispatch ==
    /\ mn.pc = "ready"
    /\ mn' = [mn EXCEPT !.pc = "done",
                        !.log = Append(@, Log("handler",
                                              Handler(mn.command, mn.soft), FALSE))]
    /\ UNCHANGED <<discVars, net, cliVars, auxVars, ctl, bt, vol, conf, kc, extVars>>

MainInit ==
    /\ QuietDisc
    /\ QuietNetCli
    /\ AuxQuiet

MainNext ==
    \/ \E first \in FirstArgs, scan, json, soft \in BOOLEAN :
          ParseArgs(first, scan, json, soft)
    \/ Construct
    \/ SkipDiscovery
    \/ BeginDiscovery
    \/ EndDiscovery
    \/ Dispatch

SpecMain == MainInit /\ [][MainNext]_vars

(* ============================ set_api_key ============================= *)
(* sys.platform *)
Platforms == {"darwin", "linux"}
(* the secrets given: empty, one holding a NUL, and three others *)
ApiKeys == {<<>>, <<107, 0, 49>>, <<107, 49>>, <<107, 50>>, <<107, 51>>}
(* the Keychain entry before the call: none, or an earlier secret *)
NoEntry == <<>>
Entries == {NoEntry, <<111, 108, 100>>}

(* what subprocess.run does with a security command: the exit code of the  *)
(* command, or the exception raised                                        *)
ExitCodes == {0, 1, 44, 45, 51}
RunRaises == {"TimeoutExpired", "FileNotFoundError", "OSError"}

(* '\x00' in api_key *)
HasNul(key) == \E i \in 1..Len(key) : key[i] = 0

(* an exception of the delete call is caught by the except clauses at the  *)
(* end of the function, which return False                                 *)
AfterDeleteRaises(exc) == "done"

Ran(cmd, outcome) == [cmd |-> cmd, code |-> outcome.code, exc |-> outcome.exc]
Exit(code) == [code |-> code, exc |-> ""]
Raise(exc) == [code |-> 0 - 1, exc |-> exc]
RunOutcomes == {Exit(c) : c \in ExitCodes} \cup {Raise(e) : e \in RunRaises}

(* set_api_key(api_key) up to the first subprocess.run *)
SetApiKey(platform, key, entry) ==
    /\ kc.pc = "idle"
    /\ kc' = [kc EXCEPT !.platform = platform, !.key = key, !.entry = entry,
                        !.pc = IF platform # "darwin" \/ key = <<>> \/ HasNul(key)
                               THEN "done" ELSE "delete"]
    /\ UNCHANGED <<discVars, net, cliVars, auxVars, ctl, bt, vol, mn, conf, extVars>>

(* security delete-generic-password, check=False, timeout=5 *)
RunDelete(outcome, removed) ==
    /\ kc.pc = "delete"
    /\ outcome.exc = "" => (removed <=> outcome.code = 0)
    /\ outcome.code = 0 => kc.entry # NoEntry
    /\ outcome.exc \in {"FileNotFoundError", "OSError"} => ~removed
    /\ kc' = [kc EXCEPT !.log = Append(@, Ran("delete", outcome)),
                        !.entry = IF removed THEN NoEntry ELSE @,
                        !.pc = IF outcome.exc = "" THEN "add"
                               ELSE AfterDeleteRaises(outcome.exc)]
    /\ UNCHANGED <<discVars, net, cliVars, auxVars, ctl, bt, vol, mn, conf, extVars>>

(* security add-generic-password -w api_key -U, then result.returncode *)
RunAdd(outcome) ==
    /\ kc.pc = "add"
    /\ kc' = [kc EXCEPT !.log = Append(@, Ran("add", outcome)),
                        !.entry = IF outcome.exc = "" /\ outcome.code = 0
                                  THEN kc.key ELSE @,
                        !.ret = outcome.exc = "" /\ outcome.code = 0,
                        !.pc = "done"]
    /\ UNCHANGED <<discVars, net, cliVars, auxVars, ctl, bt, vol, mn, conf, extVars>>

KcInit ==
    /\ QuietDisc
    /\ QuietNetCli
    /\ AuxQuiet

KcNext ==
    \/ \E platform \in Platforms, key \in ApiKeys, entry \in Entries :
          SetApiKey(platform, key, entry)
    \/ \E outcome \in RunOutcomes, removed \in BOOLEAN : RunDelete(outcome, removed)
    \/ \E outcome \in RunOutcomes : RunAdd(outcome)

SpecKc == KcInit /\ [][KcNext]_vars

(* =========================== LSDP (lsdp.py) =========================== *)
(* A datagram is the tuple of its bytes; data[i] of the code is Byte(data, *)
(* i). ls.heard is the list of the announcements that the datagrams        *)
(* received in the current run were built to carry; the code has no such   *)
(* list, it is what the results are compared with.                         *)
MaxRuns == 2        \* discover() calls on one LSDPDiscovery
MaxDatagrams == 2   \* datagrams received in one listen window

LSDP_MAGIC == <<76, 83, 68, 80>>
LSDP_VERSION == 1
CLASS_BLUOS_PLAYER == 1
CLASS_BLUOS_HUB == 8
MSG_QUERY == 81
MSG_ANNOUNCE == 65

Byte(data, i) == data[i + 1]
(* data[a:b] *)
Slice(data, a, b) == SubSeq(data, a + 1, Min(b, Len(data)))

(* bytes.decode('utf-8', errors='ignore') on ASCII bytes and on the bytes   *)
(* 0xF8..0xFF, which occur in no UTF-8 sequence and are dropped            *)
RECURSIVE decode(_)
decode(b) ==
    IF b = <<>> THEN <<>>
    ELSE IF Head(b) >= 248 THEN decode(Tail(b))
    ELSE <<Head(b)>> \o decode(Tail(b))

(* f"{node_id}:{class_id}" *)
device_key(node_id, class_id) == node_id \o <<58>> \o Digits(class_id)

LSDPDevice(node_id, ip, class_id) ==
    [node_id |-> node_id, ip |-> ip, class_id |-> class_id]

(* the inner loop of _parse_announce over the TXT records: the offset it   *)
(* leaves                                                                  *)
RECURSIVE TxtRecords(_, _, _)
TxtRecords(data, offset, n) ==
    IF n = 0 \/ offset >= Len(data) THEN offset
    ELSE LET key_len == Byte(data, offset)
             o1 == offset + 1
         IN IF o1 + key_len > Len(data) THEN o1
            ELSE LET o2 == o1 + key_len
                 IN IF o2 >= Len(data) THEN o2
                    ELSE LET val_len == Byte(data, o2)
                             o3 == o2 + 1
                         IN IF o3 + val_len > Len(data) THEN o3
                            ELSE TxtRecords(data, o3 + val_len, n - 1)

(* the loop of _parse_announce over the announce records *)
RECURSIVE AnnounceRecords(_, _, _, _, _, _)
AnnounceRecords(data, offset, n, node_id, ip, devices) ==
    IF n = 0 \/ offset + 2 > Len(data) THEN devices
    ELSE LET class_id == Byte(data, offset) * 256 + Byte(data, offset + 1)
             o1 == offset + 2
         IN IF o1 >= Len(data) THEN devices
            ELSE AnnounceRecords(data,
                                 TxtRecords(data, o1 + 1, Byte(data, o1)),
                                 n - 1, node_id, ip,
                                 Store(devices, device_key(node_id, class_id),
                                       LSDPDevice(node_id, ip, class_id)))

(* _parse_announce(data, source_ip): the devices dictionary afterwards *)
_parse_announce(data, source_ip, devices) ==
    IF Len(data) < 3 THEN devices
    ELSE LET node_id_len == Byte(data, 2)
             o1 == 3
         IN IF o1 + node_id_len > Len(data) THEN devices
            ELSE LET node_id == decode(Slice(data, o1, o1 + node_id_len))
                     o2 == o1 + node_id_len
                 IN IF o2 >= Len(data) THEN devices
                    ELSE LET addr_len == Byte(data, o2)
                             o3 == o2 + 1
                             v4 == addr_len = 4 /\ o3 + 4 <= Len(data)
                             ip == IF v4
                                   THEN Ip(Byte(data, o3), Byte(data, o3 + 1),
                                           Byte(data, o3 + 2), Byte(data, o3 + 3))
                                   ELSE source_ip
                             o4 == IF v4 THEN o3 + 4 ELSE o3 + addr_len
                         IN IF o4 >= Len(data) THEN devices
                            ELSE AnnounceRecords(data, o4 + 1, Byte(data, o4),
                                                 node_id, ip, devices)

(* the three tests of _parse_packet before its loop *)
HeaderAccepted(data) ==
    /\ Len(data) >= 6
    /\ Slice(data, 1, 5) = LSDP_MAGIC
    /\ Byte(data, 5) = LSDP_VERSION

(* one pass of `while offset < len(data)`: what the pass ends with *)
LoopExits(data, offset) ==
    \/ offset >= Len(data)
    \/ offset + 1 > Len(data)
    \/ offset + Byte(data, offset) > Len(data)
(* data[offset + 1] with offset + 1 = len(data) *)
LoopRaises(data, offset) ==
    ~LoopExits(data, offset) /\ offset + 1 >= Len(data)
(* offset += msg_length *)
NextOffset(data, offset) == offset + Byte(data, offset)

(* self.discovered_devices.clear() *)
Cleared_kept(devices) == devices

Cleared(devices) == EmptyDict

(* sorted(list(set(valid_ips))) *)
ValidIps(devices) ==
    SortedList(UNION {sanitize_ip(devices[k].ip) : k \in DOMAIN devices})

(* -- the datagrams of the model -- *)
Header == <<6>> \o LSDP_MAGIC \o <<LSDP_VERSION>>
Message(body) == <<1 + Len(body)>> \o body
ClassRecord(class_id) == <<class_id \div 256, class_id % 256, 0>>
(* a record with one TXT pair of one byte each *)
ClassRecordTxt(class_id) == <<class_id \div 256, class_id % 256, 1, 1, 110, 1, 120>>
Announce(node, addr, records) ==
    Message(<<MSG_ANNOUNCE, Len(node)>> \o node \o <<Len(addr)>> \o addr
              \o <<Len(records)>>
              \o (IF Len(records) = 0 THEN <<>>
                  ELSE IF Len(records) = 1 THEN records[1]
                  ELSE records[1] \o records[2]))
NodeA == <<110, 49>>
NodeB == <<110, 50>>
(* the same node id followed by a byte that decode drops *)
NodeA_ff == <<110, 49, 255>>
BytesOf(ip) == ip.o
(* the address of the sender is to be used *)
FromSource == Garbage
Said(node, class_id, ip) == [node |-> node, class_id |-> class_id, ip |-> ip]
Datagram(bytes, says) == [bytes |-> bytes, says |-> says]

WellFormed ==
    {Datagram(Header \o Announce(NodeA, BytesOf(IpB), <<ClassRecord(CLASS_BLUOS_PLAYER)>>),
              <<Said(NodeA, CLASS_BLUOS_PLAYER, IpB)>>),
     Datagram(Header \o Announce(NodeA_ff, BytesOf(IpC), <<ClassRecordTxt(CLASS_BLUOS_PLAYER)>>),
              <<Said(NodeA, CLASS_BLUOS_PLAYER, IpC)>>),
     Datagram(Header \o Announce(NodeB, BytesOf(IpLoop), <<ClassRecord(CLASS_BLUOS_PLAYER)>>),
              <<Said(NodeB, CLASS_BLUOS_PLAYER, IpLoop)>>),
     Datagram(Header \o Announce(NodeB, <<>>, <<ClassRecord(CLASS_BLUOS_HUB)>>),
              <<Said(NodeB, CLASS_BLUOS_HUB, FromSource)>>),
     Datagram(Header \o Announce(NodeA, BytesOf(IpB),
                                 <<ClassRecord(CLASS_BLUOS_PLAYER), ClassRecord(CLASS_BLUOS_HUB)>>),
              <<Said(NodeA, CLASS_BLUOS_PLAYER, IpB), Said(NodeA, CLASS_BLUOS_HUB, IpB)>>),
     Datagram(Header \o Message(<<MSG_QUERY, 0>>)
                     \o Announce(NodeB, BytesOf(IpC), <<ClassRecord(CLASS_BLUOS_PLAYER)>>),
              <<Said(NodeB, CLASS_BLUOS_PLAYER, IpC)>>)}

(* without its last byte a datagram of one message carries nothing *)
Truncated(bytes) == SubSeq(bytes, 1, Len(bytes) - 1)

Malformed ==
    {Datagram(<<6, 76>>, <<>>),
     Datagram(<<6, 76, 83, 68, 81, 1>>, <<>>),
     Datagram(<<6>> \o LSDP_MAGIC \o <<2>>, <<>>),
     Datagram(Truncated(Header \o Announce(NodeA, BytesOf(IpB),
                                           <<ClassRecord(CLASS_BLUOS_PLAYER)>>)), <<>>),
     Datagram(Header \o <<1>>, <<>>),
     Datagram(Header \o Announce(NodeB, BytesOf(IpC), <<ClassRecord(CLASS_BLUOS_PLAYER)>>)
                     \o <<1>>,
              <<Said(NodeB, CLASS_BLUOS_PLAYER, IpC)>>),
     Datagram(Header \o <<0, 0>>, <<>>),
     Datagram(<<0>> \o LSDP_MAGIC \o <<LSDP_VERSION>>, <<>>)}

Datagrams == WellFormed \cup Malformed
(* addr[0] of recvfrom *)
Sources == {IpC, IpLinkLocal}

Resolve(says, src) ==
    [i \in 1..Len(says) |->
        IF says[i].ip = FromSource THEN [says[i] EXCEPT !.ip = src] ELSE says[i]]

(* the end of discover(): lines 118-125 *)
Returned(st, how) ==
    [st EXCEPT !.pc = "returned", !.ended = how, !.result = ValidIps(st.devices)]

(* discover() up to the listen loop; the socket calls may raise OSError,   *)
(* which the outer except clause catches                                   *)
LsdpDiscover(socketOk) ==
    /\ ls.pc \in {"idle", "returned"}
    /\ ls.runs < MaxRuns
    /\ LET st == [LsIdle EXCEPT !.runs = ls.runs + 1,
                                !.devices = Cleared(ls.devices)]
       IN ls' = IF socketOk THEN [st EXCEPT !.pc = "listening"]
                ELSE Returned(st, "socket error")
    /\ UNCHANGED <<discVars, net, cliVars, auxVars, appVars, qu, rq, th, rm>>

(* sock.recvfrom and _parse_packet up to its loop *)
Recvfrom(dg, src) ==
    /\ ls.pc = "listening"
    /\ ls.received < MaxDatagrams
    /\ ls' = [ls EXCEPT !.received = @ + 1,
                        !.heard = @ \o Resolve(dg.says, src),
                        !.data = dg.bytes,
                        !.source = src,
                        !.offset = IF HeaderAccepted(dg.bytes)
                                   THEN Byte(dg.bytes, 0) ELSE 0,
                        !.pc = IF HeaderAccepted(dg.bytes)
                               THEN "parsing" ELSE "listening"]
    /\ UNCHANGED <<discVars, net, cliVars, auxVars, appVars, qu, rq, th, rm>>

(* one pass of the loop of _parse_packet; IndexError is not caught by the  *)
(* except clauses of the listen loop and reaches `except Exception`        *)
ParseMessage ==
    /\ ls.pc = "parsing"
    /\ ls' =
         IF LoopExits(ls.data, ls.offset) THEN [ls EXCEPT !.pc = "listening"]
         ELSE IF LoopRaises(ls.data, ls.offset) THEN Returned(ls, "IndexError")
         ELSE LET msg_length == Byte(ls.data, ls.offset)
                  msg_type == Byte(ls.data, ls.offset + 1)
              IN [ls EXCEPT
                    !.devices =
                        IF msg_type = MSG_ANNOUNCE
                        THEN _parse_announce(
                                 Slice(ls.data, ls.offset, ls.offset + msg_length),
                                 ls.source, ls.devices)
                        ELSE @,
                    !.offset = NextOffset(ls.data, ls.offset)]
    /\ UNCHANGED <<discVars, net, cliVars, auxVars, appVars, qu, rq, th, rm>>

(* socket.timeout or OSError in recvfrom, or the window has elapsed *)
WindowEnds(how) ==
    /\ ls.pc = "listening"
    /\ ls' = Returned(ls, how)
    /\ UNCHANGED <<discVars, net, cliVars, auxVars, appVars, qu, rq, th, rm>>

LsInit == QuietDisc /\ QuietNetCli /\ AuxQuiet

LsNext ==
    \/ \E socketOk \in BOOLEAN : LsdpDiscover(socketOk)
    \/ \E dg \in Datagrams, src \in Sources : Recvfrom(dg, src)
    \/ ParseMessage
    \/ \E how \in {"timeout", "OSError"} : WindowEnds(how)

SpecLsdp == LsInit /\ [][LsNext]_vars

(* ===================== the queue command (cli.py) ===================== *)
(* the words typed after "queue" are tuples of character codes *)
WordShow == <<115, 104, 111, 119>>              \* show
WordClear == <<99, 108, 101, 97, 114>>          \* clear
WordMove == <<109, 111, 118, 101>>              \* move
WordKit == <<107, 105, 116>>                    \* kit
QueueWords == {WordClear, WordMove, WordKit, Digits(1), Digits(3)}
(* up to one word more than the sub-parser takes *)
QueueLines ==
    {<<>>} \cup {<<a>> : a \in QueueWords \cup {WordShow}}
           \cup {<<a, b>> : a, b \in QueueWords}
           \cup {<<WordMove, b, c>> : b, c \in QueueWords}
           \cup {<<WordMove, b, c, d>> : b, c, d \in QueueWords}
           \cup {<<WordMove, Digits(1), Digits(3), WordKit, WordKit>>}

(* the names the players report: Kit1 and Lo *)
QueueName(ip) == IF ip = IpB THEN <<75, 105, 116, 49>> ELSE <<76, 111>>
QueuePlayers == {IpB, IpC}

(* the queue sub-parser: four optional positionals, filled from the left;  *)
(* a fifth word makes argparse exit                                        *)
QueueArgs(words) ==
    [action |-> IF Len(words) >= 1 THEN words[1] ELSE WordShow,
     target |-> IF Len(words) >= 2 THEN words[2] ELSE <<>>,
     from_index |-> IF Len(words) >= 3 THEN words[3] ELSE <<>>,
     to_index |-> IF Len(words) >= 4 THEN words[4] ELSE <<>>]

(* _get_matching_devices(target) on the players that report their name *)
QueueMatches(target, up) ==
    {ip \in up : target = <<>> \/ Contains(lower(target), lower(QueueName(ip)))}

QueueRequest(ip, path, from, to) == [ip |-> ip, path |-> path, from |-> from, to |-> to]

(* BluesoundCLI.queue(args) for the players in the order handed over *)
QueueHandler(args, targets, answering) ==
    LET reqs(path, f, t) ==
            [i \in 1..Len(targets) |-> QueueRequest(targets[i], path, f, t)]
        told(yes, no) ==
            [i \in 1..Len(targets) |-> IF targets[i] \in answering THEN yes ELSE no]
        from_idx == int(args.from_index)
        to_idx == int(args.to_index)
    IN IF targets = <<>>
       THEN [QuIdle EXCEPT !.lines = <<"no match">>]
       ELSE IF args.action = WordShow
       THEN [QuIdle EXCEPT !.requests = reqs("/Queue", 0, 0),
                           !.lines = told("queue", "no data")]
       ELSE IF args.action = WordClear
       THEN [QuIdle EXCEPT !.waits = targets,
                           !.requests = reqs("/Queue?clear=1", 0, 0),
                           !.lines = told("CLEARED", "ERROR")]
       ELSE IF args.action = WordMove
       THEN IF args.from_index = <<>> \/ args.to_index = <<>>
            THEN [QuIdle EXCEPT !.lines = <<"usage">>]
            ELSE IF ~from_idx.ok \/ ~to_idx.ok
            THEN [QuIdle EXCEPT !.lines = <<"invalid indices">>]
            ELSE [QuIdle EXCEPT !.waits = targets,
                                !.requests = reqs("/Queue?move", from_idx.v, to_idx.v),
                                !.lines = told("MOVED", "ERROR")]
       ELSE QuIdle

(* main() on "queue <words>": the sub-parser, then BluesoundCLI.queue *)
Queue(words, up, answering) ==
    /\ qu.op = "none"
    /\ \E targets \in Orders(QueueMatches(QueueArgs(words).target, up)) :
          qu' = IF Len(words) > 4
                THEN [QuIdle EXCEPT !.op = "exit", !.words = words, !.up = up]
                ELSE [QueueHandler(QueueArgs(words), targets, answering)
                        EXCEPT !.op = "queue", !.words = words, !.up = up]
    /\ UNCHANGED <<discVars, net, cliVars, auxVars, appVars, ls, rq, th, rm>>

QuInit == QuietDisc /\ QuietNetCli /\ AuxQuiet

QuNext ==
    \E words \in QueueLines, up \in SUBSET QueuePlayers :
        \E answering \in SUBSET up : Queue(words, up, answering)

SpecQu == QuInit /\ [][QuNext]_vars

(* ================= the hosts of the device requests =================== *)
(* a request is [site, host, arg]: host is the address text between        *)
(* "http://" and the port, arg the address text in the query (Garbage when *)
(* the query holds none)                                                   *)
DeviceRequest(site, host, arg) == [site |-> site, host |-> host, arg |-> arg]

(* the controller methods that take one address; each starts with          *)
(* `sanitized_ip = sanitize_ip(ip)` and returns when it is None            *)
OneAddressMethods ==
    {"get_sys_uptime", "get_device_info", "play_device", "pause_device",
     "stop_device", "skip_track", "previous_track", "get_queue", "clear_queue",
     "move_queue_item", "get_inputs", "set_input", "get_bluetooth_mode",
     "set_bluetooth_mode", "soft_reboot", "get_presets", "play_preset"}
TwoAddressMethods == {"add_sync_slave", "remove_sync_slave"}

(* `if not sanitized_ip: return ...` *)
HostFor_unguarded(ip) == {ip}

HostFor(ip) == sanitize_ip(ip)

(* the requests of one controller method *)
MethodRequests(method, ip, other) ==
    IF method \in TwoAddressMethods
    THEN IF HostFor(ip) = {} \/ HostFor(other) = {} THEN <<>>
         ELSE <<DeviceRequest(method, CHOOSE h \in HostFor(ip) : TRUE,
                        CHOOSE h \in HostFor(other) : TRUE)>>
    ELSE IF HostFor(ip) = {} THEN <<>>
    ELSE IF method = "get_device_info"
    THEN LET h == CHOOSE h \in HostFor(ip) : TRUE
         IN <<DeviceRequest("SyncStatus", h, Garbage), DeviceRequest("Status", h, Garbage),
              DeviceRequest("get_sys_uptime", h, Garbage)>>
    ELSE <<DeviceRequest(method, CHOOSE h \in HostFor(ip) : TRUE, Garbage)>>

(* the PlayerStatus get_device_info returns, as far as the commands read it *)
Snapshot(ip, up) ==
    IF HostFor(ip) = {} THEN [ip |-> ip, name |-> "Unknown"]
    ELSE LET h == CHOOSE h \in HostFor(ip) : TRUE
         IN [ip |-> h, name |-> IF h \in up THEN "named" ELSE "Unknown"]

(* the commands of cli.py that build a URL themselves *)
DirectSites == {"volume", "pause", "reboot", "diagnose"}
(* the commands that go through a controller method *)
FacadeSites == {"soft_reboot", "play"}
CommandSites == DirectSites \cup FacadeSites \cup {"sync break", "status"}

(* the request a command sends for one matching player d *)
SiteRequests(site, d) ==
    IF site = "sync break" THEN <<DeviceRequest(site, d.ip, d.ip)>>
    ELSE IF site = "status" THEN <<>>
    ELSE IF sanitize_ip(d.ip) = {} THEN <<>>
    ELSE LET h == CHOOSE h \in sanitize_ip(d.ip) : TRUE
         IN IF site \in FacadeSites
            THEN MethodRequests(IF site = "play" THEN "play_device" ELSE site, h, h)
            ELSE IF site = "diagnose"
            THEN MethodRequests("get_sys_uptime", d.ip, d.ip)
                    \o <<DeviceRequest(site, h, Garbage)>>
            ELSE <<DeviceRequest(site, h, Garbage)>>

RECURSIVE Flatten(_)
Flatten(ss) == IF ss = <<>> THEN <<>> ELSE Head(ss) \o Flatten(Tail(ss))

(* status and _get_matching_devices: one get_device_info per known address; *)
(* the commands keep the players with a name                                *)
CommandRequests(site, known, up) ==
    LET snaps == [i \in 1..Len(known) |-> Snapshot(known[i], up)]
        asked == Flatten([i \in 1..Len(known) |->
                            MethodRequests("get_device_info", known[i], known[i])])
        targets == SelectSeq(snaps, LAMBDA d : d.name # "Unknown")
        chosen == IF site = "diagnose" /\ targets # <<>> THEN <<Head(targets)>>
                  ELSE targets
    IN asked \o Flatten([i \in 1..Len(chosen) |-> SiteRequests(site, chosen[i])])

(* the known-IP lists discover() can leave: from a cache file or a scan *)
KnownLists ==
    {_load_discovery_cache(f, Epoch, 2).ips : f \in InitialCacheFiles}
        \cup {SortedList(_discover_mdns(raw)) : raw \in SubsetsUpTo(RawIPs, 2)}

(* a controller method called with any text *)
Method(method, ip, other) ==
    /\ rq.op = "none"
    /\ rq' = [op |-> method, requests |-> MethodRequests(method, ip, other)]
    /\ UNCHANGED <<discVars, net, cliVars, auxVars, appVars, ls, qu, th, rm>>

(* a command of the command line after discover() *)
Command(site, known, up) ==
    /\ rq.op = "none"
    /\ rq' = [op |-> site, requests |-> CommandRequests(site, known, up)]
    /\ UNCHANGED <<discVars, net, cliVars, auxVars, appVars, ls, qu, th, rm>>

RqInit == QuietDisc /\ QuietNetCli /\ AuxQuiet

RqNext ==
    \/ \E method \in OneAddressMethods \cup TwoAddressMethods, ip, other \in RawIPs :
          Method(method, ip, other)
    \/ \E site \in CommandSites, known \in KnownLists, up \in SUBSET {IpB, IpC} :
          Command(site, known, up)

SpecRq == RqInit /\ [][RqNext]_vars

(* ================= the parallel device queries (cli.py) =============== *)
(* th.workers gives each submitted get_device_info call its position;      *)
(* th.log lists the accesses to ctl.ips and ctl.unifi_map and the starts   *)
(* and ends of the calls, th.order the players as the command goes         *)
(* through them.                                                           *)
Access(e, by) == [e |-> e, by |-> by]
(* status; cli.discover; diagnose; pause for the commands that only call   *)
(* _get_matching_devices                                                   *)
ParallelCmds == {"status", "discover", "diagnose", "pause"}
ParallelIps == {IpB, IpC, IpD}

(* `with ThreadPoolExecutor(...)` is left: as_completed has handed over    *)
(* every future and shutdown(wait=True) has returned                       *)
BatchOver_at_first(workers, taken) == Len(taken) >= 1

BatchOver(workers, taken) ==
    /\ Len(taken) = Cardinality(DOMAIN workers)
    /\ \A w \in DOMAIN workers : workers[w] = "done"

(* the order in which the command goes through the players *)
DeviceOrder(cmd, known, taken) ==
    IF cmd = "status" THEN SortedList(Range(taken))
    ELSE IF cmd = "discover" THEN known
    ELSE taken

(* main(): ctl.discover() assigns self.ips on the calling thread *)
ParDiscover(cmd, found) ==
    /\ th.pc = "start"
    /\ th' = [th EXCEPT !.cmd = cmd, !.ips = SortedList(found),
                        !.log = @ \o <<Access("write ips", "main")>>,
                        !.pc = IF found = {} THEN "done"
                               ELSE IF cmd = "status" THEN "sync_unifi"
                               ELSE "submit"]
    /\ UNCHANGED <<discVars, net, cliVars, auxVars, appVars, ls, qu, rq, rm>>

(* ctl.sync_unifi(): before the batch in status, after it in diagnose; it  *)
(* assigns self.unifi_map unless UniFi is disabled                         *)
ParSyncUnifi(assigns) ==
    /\ th.pc = "sync_unifi"
    /\ th' = [th EXCEPT !.log = IF assigns
                                THEN @ \o <<Access("write unifi_map", "main")>>
                                ELSE @,
                        !.pc = IF th.cmd = "status" THEN "submit" ELSE "done"]
    /\ UNCHANGED <<discVars, net, cliVars, auxVars, appVars, ls, qu, rq, rm>>

(* executor.submit(self.ctl.get_device_info, ip) for the next ip of        *)
(* self.ctl.ips                                                            *)
Submit ==
    /\ th.pc = "submit"
    /\ LET k == Cardinality(DOMAIN th.workers) + 1
           ip == th.ips[k]
       IN th' = [th EXCEPT !.workers = [w \in DOMAIN th.workers \cup {ip} |->
                                           IF w = ip THEN "running" ELSE th.workers[w]],
                           !.log = @ \o <<Access("read ips", "main"),
                                          Access("submit", ip)>>,
                           !.pc = IF k = Len(th.ips) THEN "collect" ELSE "submit"]
    /\ UNCHANGED <<discVars, net, cliVars, auxVars, appVars, ls, qu, rq, rm>>

(* a worker thread in get_device_info: self.unifi_map.get(sanitized_ip) *)
WorkerReadsMap(w) ==
    /\ w \in DOMAIN th.workers
    /\ th.workers[w] = "running"
    /\ th' = [th EXCEPT !.workers[w] = "read",
                        !.log = @ \o <<Access("read unifi_map", w)>>]
    /\ UNCHANGED <<discVars, net, cliVars, auxVars, appVars, ls, qu, rq, rm>>

(* get_device_info returns: the future is complete *)
WorkerReturns(w) ==
    /\ w \in DOMAIN th.workers
    /\ th.workers[w] = "read"
    /\ th' = [th EXCEPT !.workers[w] = "done",
                        !.log = @ \o <<Access("done", w)>>]
    /\ UNCHANGED <<discVars, net, cliVars, auxVars, appVars, ls, qu, rq, rm>>

(* for f in as_completed(...): the calling thread is handed a future that  *)
(* is complete                                                             *)
Collect(w) ==
    /\ th.pc = "collect"
    /\ w \in DOMAIN th.workers
    /\ th.workers[w] = "done"
    /\ w \notin Range(th.taken)
    /\ th' = [th EXCEPT !.taken = @ \o <<w>>]
    /\ UNCHANGED <<discVars, net, cliVars, auxVars, appVars, ls, qu, rq, rm>>

(* the with block is left and the command goes through the players *)
AfterBatch ==
    /\ th.pc = "collect"
    /\ BatchOver(th.workers, th.taken)
    /\ th' = [th EXCEPT !.order = DeviceOrder(th.cmd, th.ips, th.taken),
                        !.pc = IF th.cmd = "diagnose" THEN "sync_unifi" ELSE "done"]
    /\ UNCHANGED <<discVars, net, cliVars, auxVars, appVars, ls, qu, rq, rm>>

ParInit == QuietDisc /\ QuietNetCli /\ AuxQuiet

ParNext ==
    \/ \E cmd \in ParallelCmds, found \in SUBSET ParallelIps : ParDiscover(cmd, found)
    \/ \E assigns \in BOOLEAN : ParSyncUnifi(assigns)
    \/ Submit
    \/ \E w \in ParallelIps : WorkerReadsMap(w)
    \/ \E w \in ParallelIps : WorkerReturns(w)
    \/ \E w \in ParallelIps : Collect(w)
    \/ AfterBatch

SpecPar == ParInit /\ [][ParNext]_vars

(* ============ the shared RateLimiter and several threads ============== *)
(* get_rate_limiter() hands every caller the one module-level instance;    *)
(* wait_if_needed takes no lock, so the threads' steps interleave. Time is *)
(* counted in tenths of a second, as for the single caller.                *)
Threads == {"t1", "t2"}

(* a thread enters wait_if_needed(key): now = time.time(), the look-up in  *)
(* last_call and the test, up to the sleep                                 *)
ThreadEnters(t, key) ==
    /\ rm.t[t].pc = "idle"
    /\ Len(rm.returns) + Cardinality({u \in Threads : rm.t[u].pc # "idle"}) < MaxWaits
    /\ LET d == SleepFor(Elapsed(rm.last_call, key, rm.clock), rm.min_delay)
       IN rm' = [rm EXCEPT !.t[t] = [pc |-> IF d > 0 THEN "sleep" ELSE "record",
                                     key |-> key, wake |-> rm.clock + d]]
    /\ UNCHANGED <<discVars, net, cliVars, auxVars, appVars, ls, qu, rq, th>>

(* time.sleep(d) is over *)
ThreadWakes(t) ==
    /\ rm.t[t].pc = "sleep"
    /\ rm.clock >= rm.t[t].wake
    /\ rm' = [rm EXCEPT !.t[t].pc = "record"]
    /\ UNCHANGED <<discVars, net, cliVars, auxVars, appVars, ls, qu, rq, th>>

(* self.last_call[key] = time.time(), and the return *)
ThreadRecords(t) ==
    /\ rm.t[t].pc = "record"
    /\ rm' = [rm EXCEPT !.t[t].pc = "idle",
                        !.last_call = SetItem(@, rm.t[t].key, rm.clock),
                        !.returns = Append(@, [key |-> rm.t[t].key, at |-> rm.clock,
                                               by |-> t])]
    /\ UNCHANGED <<discVars, net, cliVars, auxVars, appVars, ls, qu, rq, th>>

(* time passes *)
SharedClockAdvance ==
    /\ rm.clock < MaxClock
    /\ rm' = [rm EXCEPT !.clock = @ + 1]
    /\ UNCHANGED <<discVars, net, cliVars, auxVars, appVars, ls, qu, rq, th>>

RmInit == QuietDisc /\ QuietNetCli /\ AuxQuiet

RmNext ==
    \/ \E t \in Threads, key \in Keys : ThreadEnters(t, key)
    \/ \E t \in Threads : ThreadWakes(t)
    \/ \E t \in Threads : ThreadRecords(t)
    \/ SharedClockAdvance

SpecRm == RmInit /\ [][RmNext]_vars

(* ===================== discovery: claims C1 - C5 ====================== *)
(* a step of discover(): Tick is the only other action and moves the clock *)
DiscoverStep == now' = now

Scanned(r) == r.called /\ ~r.hit

AllValid(l) == \A i \in 1..Len(l) : validate_ip(l[i])
SomeValid(l) == \E i \in 1..Len(l) : validate_ip(l[i])

C3_AllOrNothing ==
    run.hit => AllValid(cacheFile.ips)

(* C3 as amended: an unforced discover() that finds a fresh record with at  *)
(* least one valid IP reuses it, loading exactly the cached IPs that pass   *)
(* validation, in cached order, and runs no scan; only a fresh record with  *)
(* no valid IP is a miss.                                                   *)
C3_ValidSubsetLoaded ==
    [][(DiscoverStep /\ ~run'.forced /\ cacheFile.kind = "record"
          /\ now - cacheFile.ts < cfgTTL) =>
        /\ SomeValid(cacheFile.ips) =>
              /\ run'.hit /\ run'.paths = <<>>
              /\ Len(ips') = Cardinality({i \in 1..Len(cacheFile.ips) :
                                            validate_ip(cacheFile.ips[i])})
              /\ \A i \in 1..Len(ips') : validate_ip(ips'[i])
              /\ \A i \in 1..Len(cacheFile.ips) :
                    validate_ip(cacheFile.ips[i]) => cacheFile.ips[i] \in Range(ips')
        /\ ~SomeValid(cacheFile.ips) => Scanned(run')
    ]_vars

C3_Witness ==
    /\ run.hit
    /\ cacheFile.ips = <<IpLoop, IpB>>
    /\ ips = <<IpB>>

(* C4: after any sequence of discover() calls every element of the          *)
(* known-IP list is a well-formed dotted quad that is not 0.0.0.0, loopback,*)
(* multicast, reserved or link-local.                                       *)
C4_KnownIpsValid ==
    \A i \in 1..Len(ips) :
        /\ ~ips[i].ws
        /\ Len(ips[i].o) = 4
        /\ \A k \in 1..4 : ips[i].o[k] \in 0..255
        /\ ips[i].o # <<0, 0, 0, 0>>
        /\ ips[i].o[1] # 127
        /\ ips[i].o[1] < 224
        /\ ~(ips[i].o[1] = 169 /\ ips[i].o[2] = 254)

C4_Witness ==
    /\ run.hit
    /\ cacheFile.ips = <<IpB, IpLoop>>
    /\ ips = <<IpB>>

(* C5 as stated: a scan that yields a valid IP leaves the cache holding the *)
(* new known-IP list; a scan that yields none empties the list.             *)
C5_CacheAlwaysRewritten ==
    (Scanned(run) /\ ips # <<>>) =>
        (cacheFile.kind = "record" /\ cacheFile.ips = ips)

(* C5 as amended: a scan that yields a valid IP attempts the atomic write   *)
(* of the current timestamp and exactly the new known-IP list, and the      *)
(* cache file holds that record when the write succeeds and is left exactly *)
(* as it was when the write fails; a scan that yields none empties the      *)
(* known-IP list, attempts no write and leaves the cache file as it was.    *)
C5_CacheWrittenIffFound ==
    [][(DiscoverStep /\ Scanned(run')) =>
        /\ ips' # <<>> => run'.write \in {"ok", "failed"}
        /\ (ips' # <<>> /\ run'.write = "ok") => cacheFile' = Record(now, ips')
        /\ (ips' # <<>> /\ run'.write = "failed") => cacheFile' = cacheFile
        /\ ips' = <<>> => (run'.write = "none" /\ cacheFile' = cacheFile)
    ]_vars

C5_Witness ==
    /\ Scanned(run)
    /\ ips = <<>>
    /\ run.mdns = {} /\ run.lsdp = {}
    /\ cacheFile = Record(Epoch, <<IpB>>)
    /\ now > Epoch

(* ================== Network.request: claims C9 - C10 ================== *)
Last(q) == q[Len(q)]

(* C9: Network.request never raises; a transient failure is attempted at   *)
(* most three times in all and when every attempt fails the call returns   *)
(* no value; any other exception also gives no value.                      *)
C9_RequestNeverRaises ==
    /\ net.result # "raised"
    /\ Len(net.outcomes) <= 3
    /\ (net.pc = "done" /\ net.outcomes # <<>> /\ Last(net.outcomes) # "ok")
          => net.result = "none"
    /\ (net.pc = "done" /\ net.outcomes = <<>>) => net.result = "none"
    /\ net.pc = "done" => net.result \in {"value", "none"}

C9_Witness ==
    /\ net.pc = "done"
    /\ net.outcomes = <<"TimeoutError", "ConnectionError", "OSError">>
    /\ net.sleeps = <<1, 2>>
    /\ net.result = "none"

C9_WitnessOther ==
    /\ net.pc = "done"
    /\ net.outcomes = <<"URLError", "HTTPException">>
    /\ net.result = "none"

(* C10: when the server answers with an HTTP error status exactly one      *)
(* request attempt is made, with no retry and no backoff sleep, and the    *)
(* call returns no value.                                                  *)
C10_HttpErrorNotRetried ==
    (net.outcomes # <<>> /\ net.outcomes[1] = "HTTPError") =>
        /\ net.pc = "done"
        /\ Len(net.outcomes) = 1
        /\ net.sleeps = <<>>
        /\ net.result = "none"

(* ==================== command line: claims C6 - C8 ==================== *)
Indexes(e) == {i \in 1..Len(cli.events) : cli.events[i].e = e}
RequestsTo(d) == {i \in Indexes("request") : cli.events[i].d = d}
LinesFor(d) == {i \in Indexes("line") : cli.events[i].d = d}
(* the players the command is meant for: those that have a name and whose  *)
(* lower-cased name contains the lower-cased word                          *)
Meant(word) ==
    {d \in Dev : /\ d \in online
                 /\ DevName[d] # Unknown
                 /\ (word = None \/ Contains(Lower(word), Lower(DevName[d])))}
SaysYes(a) == a \in {<<"y">>, <<"Y">>}

(* C6: reboot and soft reboot send no request before the confirmation      *)
(* prompt is answered, none at all after an answer other than y or Y, and   *)
(* exactly one per matching player after y; with no matching player there   *)
(* is neither prompt nor request.                                           *)
C6_RebootConfirmed ==
    cli.cmd \in RebootCmds =>
        /\ \A i \in Indexes("request") : \E j \in Indexes("answer") : j < i
        /\ \A i \in Indexes("request") : SaysYes(cli.answer)
        /\ (Indexes("answer") # {} /\ ~SaysYes(cli.answer)) =>
              (cli.pc = "done" /\ Indexes("request") = {})
        /\ (cli.pc = "done" /\ SaysYes(cli.answer)) =>
              \A d \in Dev :
                 Cardinality(RequestsTo(d)) = IF d \in Meant(cli.target) THEN 1 ELSE 0
        /\ Meant(cli.target) = {} =>
              (Indexes("prompt") = {} /\ Indexes("request") = {})
        /\ Cardinality(Indexes("prompt")) <= 1

C6_Witness ==
    /\ cli.cmd = "soft_reboot"
    /\ cli.pc = "done"
    /\ cli.answer = <<"Y">>
    /\ Cardinality(Indexes("request")) = 2
    /\ cli.target = <<"k", "i", "t">>

C6_WitnessDeclined ==
    /\ cli.cmd = "reboot"
    /\ cli.pc = "done"
    /\ cli.answer = <<"y", "e", "s">>
    /\ Cardinality(Meant(cli.target)) = 3

(* C7: "sync break <name>" sends the sync-removal request only to players   *)
(* whose name contains <name>, whatever the case, and when none matches it  *)
(* reports that and sends nothing.                                          *)
C7_SyncBreakOnlyNamed ==
    (cli.cmd = "sync_break" /\ Len(cli.argv) = 1) =>
        /\ \A i \in Indexes("request") : cli.events[i].d \in Meant(cli.argv[1])
        /\ (cli.pc = "done" /\ Meant(cli.argv[1]) = {}) =>
              cli.events = <<Event("nomatch", "-", FALSE)>>

Calls == Len(rt.outcomes)
AllowListed(e) == \E c \in rt.cfg.exceptions : IsInstance(e, c)
FailedAllowListed(i) == rt.outcomes[i] # "ok" /\ AllowListed(rt.outcomes[i])
Doubled(n, times) == IF times = 0 THEN n ELSE IF times = 1 THEN 2 * n
                     ELSE IF times = 2 THEN 4 * n ELSE IF times = 3 THEN 8 * n
                     ELSE 16 * n

(* C11: a wrapped function that raises an allow-listed exception on its     *)
(* first k calls, k < max_retries, and then succeeds is called exactly k+1  *)
(* times, its result is returned, and the i-th sleep, i = 0..k-1, is        *)
(* min(base_delay * 2^i, max_delay), so never more than max_delay.          *)
C11_BackoffThenSuccess ==
    /\ (rt.outcomes # <<>> /\ Last(rt.outcomes) = "ok"
          /\ \A i \in 1..(Calls - 1) : FailedAllowListed(i)) =>
          /\ Calls - 1 < rt.cfg.max_retries
          /\ rt.pc = "returned"
          /\ rt.result = "value"
          /\ Len(rt.sleeps) = Calls - 1
          /\ \A i \in 0..(Calls - 2) :
                /\ rt.sleeps[i + 1] =
                      (IF Doubled(rt.cfg.base_delay, i) < rt.cfg.max_delay
                       THEN Doubled(rt.cfg.base_delay, i) ELSE rt.cfg.max_delay)
                /\ rt.sleeps[i + 1] <= rt.cfg.max_delay
    /\ (rt.outcomes # <<>> /\ Calls < rt.cfg.max_retries
          /\ \A i \in 1..Calls : FailedAllowListed(i)) => rt.pc \in {"sleep", "call"}

C11_Witness ==
    /\ rt.pc = "returned"
    /\ rt.outcomes = <<"TimeoutError", "HTTPError", "ok">>
    /\ rt.cfg.max_retries = 3
    /\ rt.sleeps = <<3, 5>>

(* the function raised an allow-listed exception every time it was called  *)
(* and the wrapper has given up                                            *)
AlwaysFailed == rt.pc = "raised" /\ \A i \in 1..Calls : FailedAllowListed(i)
CallbackNumbers(n) == [i \in 1..n |-> i]

(* C12, as stated: for every max_retries value a wrapped function that      *)
(* always raises an allow-listed exception is called exactly max_retries    *)
(* times and then that same exception is raised, with no sleep and no       *)
(* callback after the final attempt.                                        *)
C12_AlwaysFailingAnyMaxRetries ==
    AlwaysFailed =>
        /\ Calls = rt.cfg.max_retries
        /\ rt.outcomes # <<>>
        /\ rt.result = Last(rt.outcomes)
        /\ Len(rt.sleeps) = Calls - 1
        /\ Len(rt.callbacks) <= Calls - 1

(* C12, amended: that holds for every max_retries of at least 1; with       *)
(* max_retries of 0 or less the function is never called and the wrapper    *)
(* raises its own Exception("Retry failed").                                *)
C12_AlwaysFailingPositiveMaxRetries ==
    AlwaysFailed =>
        IF rt.cfg.max_retries >= 1
        THEN /\ Calls = rt.cfg.max_retries
             /\ rt.result = Last(rt.outcomes)
             /\ Len(rt.sleeps) = Calls - 1
             /\ rt.callbacks = IF rt.cfg.on_retry THEN CallbackNumbers(Calls - 1)
                               ELSE <<>>
        ELSE /\ Calls = 0
             /\ rt.result = "Retry failed"
             /\ rt.sleeps = <<>>
             /\ rt.callbacks = <<>>

C12_Witness ==
    /\ AlwaysFailed
    /\ rt.cfg.max_retries = 3
    /\ rt.outcomes = <<"OSError", "TimeoutError", "HTTPError">>
    /\ rt.result = "HTTPError"
    /\ rt.callbacks = <<1, 2>>

C12_WitnessZero ==
    /\ AlwaysFailed
    /\ rt.cfg.max_retries = 0
    /\ rt.result = "Retry failed"

(* C13: a wrapped function that raises an exception outside the allow-list  *)
(* propagates it from that very call: on the first call exactly one call    *)
(* is made, with no sleep and no on_retry callback.                         *)
C13_OtherExceptionPropagates ==
    \A i \in 1..Calls :
        (rt.outcomes[i] # "ok" /\ ~AllowListed(rt.outcomes[i])) =>
            /\ i = Calls
            /\ rt.pc = "raised"
            /\ rt.result = rt.outcomes[i]
            /\ Len(rt.sleeps) = i - 1
            /\ i = 1 => (rt.sleeps = <<>> /\ rt.callbacks = <<>>)

C13_Witness ==
    /\ rt.pc = "raised"
    /\ rt.outcomes = <<"HTTPException">>
    /\ rt.cfg.exceptions = {"URLError", "TimeoutError"}
    /\ rt.cfg.on_retry
    /\ rt.cfg.max_retries = 3
    /\ rt.sleeps = <<>>
    /\ rt.callbacks = <<>>

(* ======================= RateLimiter: claim C14 ======================== *)
SameKeyBefore(j) == {i \in 1..(j - 1) : rl.returns[i].key = rl.returns[j].key}

(* C14: in one thread two consecutive returns of wait_if_needed for the     *)
(* same key are at least min_delay apart, and a call for one key never      *)
(* waits because of calls made for a different key.                         *)
C14_SameKeySpacedOthersFree ==
    \A j \in 1..Len(rl.returns) :
        /\ \A i \in SameKeyBefore(j) :
              rl.returns[j].at - rl.returns[i].at >= rl.min_delay
        /\ rl.returns[j].slept > 0 =>
              \E i \in SameKeyBefore(j) :
                 rl.returns[j].entered - rl.returns[i].at < rl.min_delay
        /\ SameKeyBefore(j) = {} => rl.returns[j].slept = 0

C14_Witness ==
    /\ Len(rl.returns) = 3
    /\ rl.returns[1].key = "192.168.1.9"
    /\ rl.returns[2].key = "192.168.1.10"
    /\ rl.returns[3].key = "192.168.1.9"
    /\ rl.returns[2].entered - rl.returns[1].at < rl.min_delay
    /\ rl.returns[2].slept = 0
    /\ rl.returns[3].slept > 0
    /\ rl.returns[3].at - rl.returns[1].at = rl.min_delay

(* ================= rate limiting of commands: claim C15 ================ *)
(* the commands that change a player's state; the listing forms do not *)
MutatingCmds ==
    (RebootCmds \cup BatchCmds \cup DirectCmds \cup {"sync_break"})
        \ {"queue_show", "inputs_list", "bluetooth_get", "presets_list"}

(* C15: every mutating request sent to a player is preceded by a rate       *)
(* limiter wait for that player's address, and the requests are issued one  *)
(* player at a time from the calling thread.                                *)
C15_MutatingRequestsRateLimited ==
    cli.cmd \in MutatingCmds =>
        \A i \in Indexes("request") :
            /\ i > 1
            /\ cli.events[i - 1] = Event("wait", cli.events[i].d, TRUE)

(* ==================== sync_unifi: claims C16 - C18 ===================== *)
Called == uni.calls > 0
Disabled == ~uni.cfg.enabled \/ uni.known = <<>>
Unconfigured == ~uni.cfg.host \/ ~uni.cfg.key
CacheWasFresh == uni.prev_cache.kind = "record" /\ now - uni.prev_cache.ts < cfgTTL

C17_FetchErrorChangesNothing ==
    (Called /\ uni.fetched \in {"none", "empty"}) =>
        /\ uni.result.name = "ERROR_FETCH"
        /\ uni.unifi_map = uni.prev_map
        /\ uni.cache = uni.prev_cache

C17_Witness ==
    /\ uni.calls = 2
    /\ uni.fetched = "none"
    /\ uni.result.name = "ERROR_FETCH"
    /\ DOMAIN uni.unifi_map = {IpB, IpC}
    /\ uni.cache.kind = "record"

(* C18: after SUCCESS:<n> the client map is the newly built one: n entries, *)
(* every key a sanitized IP of the known-IP list of that call, and no entry *)
(* of the previous map left unless the response reported it again; after    *)
(* ERROR_PARSE the map is as it was.                                        *)
C18_MapReplacedWholesale ==
    /\ (Called /\ uni.result.name = "SUCCESS") =>
          /\ Cardinality(DOMAIN uni.unifi_map) = uni.result.n
          /\ DOMAIN uni.unifi_map =
                {k \in uni.reported : sanitize_ip(k) = {k} /\ k \in Range(uni.known)}
          /\ \A k \in DOMAIN uni.unifi_map : uni.unifi_map[k] = "x"
          /\ \A k \in DOMAIN uni.prev_map :
                k \in DOMAIN uni.unifi_map => k \in uni.reported
    /\ (Called /\ uni.result.name = "ERROR_PARSE") =>
          /\ uni.unifi_map = uni.prev_map
          /\ uni.cache = uni.prev_cache

C18_Witness ==
    /\ uni.calls = 2
    /\ uni.result = Outcome("SUCCESS", 1)
    /\ DOMAIN uni.prev_map = {IpB, IpC}
    /\ DOMAIN uni.unifi_map = {IpC}
    /\ uni.reported = {IpC, IpLoop}

C18_WitnessParseError ==
    /\ uni.calls = 2
    /\ uni.result.name = "ERROR_PARSE"
    /\ uni.fetched = "json"
    /\ uni.reported = {IpC, IpB}
    /\ DOMAIN uni.unifi_map = {IpB}

(* =================== atomic_write: claims C19 - C20 ==================== *)
Writer == fs.w["w1"]
Seen == View(fs, fs.path)

(* C19, as stated: with one writer atomic_write either completes, and then  *)
(* path holds exactly data and path.tmp is gone, or fails with an I/O       *)
(* error, and then path holds its previous content (or is still absent)     *)
(* and path.tmp is gone; no exception reaches the caller.                   *)
C19_NoTempFileEver ==
    Writer.pc = "done" =>
        /\ Writer.outcome \in {"completed", "failed"}
        /\ Writer.outcome = "completed" => Seen = Holding(Data["w1"])
        /\ Writer.outcome = "failed" => Seen = Writer.before
        /\ fs.tmp = 0

(* C19, amended: as above, except that after a failure path.tmp is gone     *)
(* only when its removal did not fail as well; and while the write is under *)
(* way path holds its previous content.                                     *)
C19_AtomicUnlessCleanupFails ==
    /\ Writer.pc = "done" =>
          /\ Writer.outcome \in {"completed", "failed"}
          /\ Writer.outcome = "completed" =>
                (Seen = Holding(Data["w1"]) /\ fs.tmp = 0)
          /\ Writer.outcome = "failed" =>
                (Seen = Writer.before /\ (Writer.removed => fs.tmp = 0))
    /\ Writer.pc \in {"write", "replace", "cleanup"} => Seen = Writer.before

C19_Witness ==
    /\ Writer.pc = "done"
    /\ Writer.calls = 2
    /\ Writer.outcome = "failed"
    /\ Writer.removed
    /\ Writer.off = 1
    /\ Seen = Holding(Data["w1"])
    /\ fs.tmp = 0

C19_WitnessStrayTemp ==
    /\ Writer.pc = "done"
    /\ Writer.outcome = "failed"
    /\ ~Writer.removed
    /\ fs.tmp # 0
    /\ Seen = Holding(OldData)

(* C20: when two invocations write the same cache file at the same time, a  *)
(* reader of the path sees only a complete old record or a complete new     *)
(* record, never an empty or partial file, and once both are through and    *)
(* one has completed, the file is the complete record of one of them.       *)
C20_ReadersSeeWholeRecords ==
    /\ Seen \in {Absent, Holding(OldData), Holding(Data["w1"]), Holding(Data["w2"])}
    /\ ((\A x \in Writers : fs.w[x].pc = "done")
          /\ (\E x \in Writers : fs.w[x].outcome = "completed")) =>
          Seen \in {Holding(Data["w1"]), Holding(Data["w2"])}

(* ================ the XML gate and the queries: C21 - C24 ============= *)
GateCall == ctl.op = "_safe_parse_xml"

(* the limits as the claim states them *)
WithinStatedLimits(doc) ==
    /\ doc.kind = "text"
    /\ doc.parse = "tree"
    /\ doc.size <= 1048576
    /\ doc.spine <= 20
    /\ 1 + doc.leaves + doc.spine <= 10000
    /\ doc.attrs <= 200
    /\ doc.text <= 104857

(* C21: _safe_parse_xml returns the root exactly when the payload is a     *)
(* well-formed document of at most 1,048,576 bytes in which no element is  *)
(* nested deeper than 20 levels below the root, with at most 10,000        *)
(* elements, at most 200 attributes on the root and at most 104,857        *)
(* characters of direct root text; every other payload, the empty, the     *)
(* whitespace-only and the malformed ones included, gives None, and no     *)
(* exception leaves the function.                                          *)
C21_GateAcceptsExactlyWithinLimits ==
    GateCall =>
        /\ ctl.out \in {"root", "None"}
        /\ (ctl.out = "root") <=> WithinStatedLimits(ctl.res[1])

(* a document that sits on every limit at once is accepted *)
C21_Witness ==
    /\ GateCall
    /\ ctl.out = "root"
    /\ ctl.res[1].size = 1048576
    /\ ctl.res[1].spine = 20
    /\ Elements(ctl.res[1]) = 10000
    /\ ctl.res[1].attrs = 200
    /\ ctl.res[1].text = 104857

ListCall == ctl.op \in ListOps

(* C22: get_queue, get_inputs and get_presets return None only when the    *)
(* reply is missing or the XML gate rejects it; for every document the     *)
(* gate accepts, a root without children included, they return the list.   *)
C22_AcceptedDocumentGivesList ==
    (ListCall /\ ctl.res # <<>>) =>
        ((ctl.out = "None") <=>
            (ctl.res[1].kind \in {"none", "empty"}
               \/ _safe_parse_xml(ctl.res[1]) # "root"))

InfoCall == ctl.op = "get_device_info"

(* C23: a snapshot of get_device_info either carries a valid address, or   *)
(* has status "invalid", every other field at its default, and was made    *)
(* without any HTTP request.                                               *)
C23_SnapshotValidOrInvalidUntouched ==
    InfoCall =>
        \/ validate_ip(ctl.snap.ip)
        \/ /\ ctl.snap = [ip |-> ctl.ip, status |-> "invalid",
                          name |-> "Unknown", volume |-> 0, state |-> "stop",
                          uptime |-> "N/A"]
           /\ ctl.requests = <<>>

(* the loopback address is turned away before anything is asked *)
C23_Witness ==
    /\ InfoCall
    /\ ctl.ip = IpLoop
    /\ ctl.snap.status = "invalid"
    /\ ctl.requests = <<>>

(* C24: the volume of every snapshot of get_device_info lies in 0..100,    *)
(* whatever the status document holds.                                     *)
C24_VolumeInRange == InfoCall => ctl.snap.volume \in 0..100

(* ========================= Bluetooth: C25 ============================= *)
TableWords ==
    {WordManual, WordAuto, WordAutomatic, WordGuest, WordDisable, WordDisabled}

(* C25: a Bluetooth mode outside {0,1,2,3} never reaches a player:         *)
(* set_bluetooth_mode given such a code returns False with no limiter wait *)
(* and no request; the bluetooth command given a word that is none of the  *)
(* mode words does not call set_bluetooth_mode; and every set-mode request *)
(* carries a code in {0,1,2,3}.                                            *)
C25_OnlyKnownModesReachPlayers ==
    /\ (bt.op = "set_bluetooth_mode" /\ bt.calls[1].mode \notin {0, 1, 2, 3}) =>
            (~bt.ret /\ bt.waits = <<>> /\ bt.requests = <<>>)
    /\ (bt.op = "bluetooth" /\ bt.word # <<>>
          /\ lower(bt.word) \notin TableWords) => bt.calls = <<>>
    /\ \A i \in 1..Len(bt.requests) :
            bt.requests[i].path = "audiomodes" => bt.requests[i].code \in {0, 1, 2, 3}

(* code 4 for a valid address is turned away *)
C25_Witness ==
    /\ bt.op = "set_bluetooth_mode"
    /\ bt.calls[1].mode = 4
    /\ bt.calls[1].ip = IpB
    /\ ~bt.ret
    /\ bt.requests = <<>>

(* ======================= configuration: C28, C29 ====================== *)
(* the constraint of each validated key on the text stored for it *)
Constraint(name, s) ==
    CASE name = "DISCOVERY_TIMEOUT" -> int(s).ok /\ int(s).v \in 1..60
      [] name = "CACHE_TTL" -> int(s).ok /\ int(s).v \in 0..3600
      [] name = "DEFAULT_SAFE_VOL" -> int(s).ok /\ int(s).v \in 0..100
      [] name = "UNIFI_ENABLED" -> s \in {TxtTrue, TxtFalse}
      [] name = "DISCOVERY_METHOD" -> s \in {TxtMdns, TxtLsdp, TxtBoth}
      [] OTHER -> TRUE

(* C28: after the configuration has been loaded, from the JSON or from the *)
(* legacy format, every stored key is upper-case and the value stored for  *)
(* a validated key satisfies the key's constraint; an entry that fails     *)
(* validation is not stored.                                               *)
C28_StoredEntriesValid ==
    conf.out = "loaded" =>
        \A k \in DOMAIN conf.data :
            k.cased = "upper" /\ Constraint(k.name, conf.data[k])

Uninterpretable(file) ==
    file.format # "absent" /\ (file.read # "ok" \/ file.shape # "dict")

(* C29: Config() never raises, whatever the file holds; when the file      *)
(* cannot be interpreted the data is empty and get() gives the caller's    *)
(* default.                                                                *)
C29_ConstructionNeverRaises ==
    conf.out # "none" =>
        /\ conf.out = "loaded"
        /\ Uninterpretable(conf.file) =>
               /\ conf.data = EmptyDict
               /\ get(conf.data, Key("DEFAULT_SAFE_VOL", "lower"), Digits(14)) = Digits(14)

(* ========================== volume: C26 =============================== *)
(* C26: every /Volume?level=N request of the volume command has N in       *)
(* 0..100, for the absolute form, the +N and -N forms and reset, with the  *)
(* configuration read from either file format.                             *)
C26_LevelsInRange ==
    \A i \in 1..Len(vol.requests) :
        vol.requests[i].kind = "level" =>
            /\ int(vol.requests[i].arg).ok
            /\ int(vol.requests[i].arg).v \in 0..100

(* ============================ main: C27 =============================== *)
At(e, arg) == {i \in 1..Len(mn.log) : mn.log[i].e = e /\ mn.log[i].arg = arg}
Handlers == {i \in 1..Len(mn.log) : mn.log[i].e = "handler"}
Discoveries == {i \in 1..Len(mn.log) : mn.log[i].e = "discover"}

(* C27: for every subcommand the discovery has returned before the handler *)
(* runs, except keychain, for which no discovery is run; discover always   *)
(* forces a scan and every other subcommand forces one exactly when --scan *)
(* was given; and one handler, no more, is called per invocation.          *)
C27_DiscoveryThenOneHandler ==
    /\ Cardinality(Handlers) <= 1
    /\ mn.pc = "done" => Cardinality(Handlers) = 1
    /\ mn.command = "keychain" => Discoveries = {}
    /\ (mn.command \in Subcommands \ {"keychain"}) =>
          /\ \A h \in Handlers :
                /\ Cardinality(At("discover", "begin")) = 1
                /\ Cardinality(At("discover", "end")) = 1
                /\ \A d \in Discoveries : d < h
          /\ \A d \in Discoveries :
                mn.log[d].force = (mn.command = "discover" \/ mn.scan)

(* status --scan: the forced discovery has returned and status has run *)
C27_Witness ==
    /\ mn.pc = "done"
    /\ mn.command = "status"
    /\ mn.scan
    /\ mn.log[Len(mn.log)] = [e |-> "handler", arg |-> "status", force |-> FALSE]
    /\ \E d \in At("discover", "end") : mn.log[d].force

(* ========================== keychain: C30 ============================= *)
(* C30: on macOS, set_api_key with a non-empty secret free of NUL first    *)
(* tries to delete the entry and then always tries the add, whatever the   *)
(* deletion did (non-zero exit, failure, timeout); it returns True exactly *)
(* when the add succeeds.                                                  *)
C30_DeleteThenAlwaysAdd ==
    (kc.pc = "done" /\ kc.platform = "darwin" /\ kc.key # <<>> /\ ~HasNul(kc.key)) =>
        /\ Len(kc.log) = 2
        /\ kc.log[1].cmd = "delete"
        /\ kc.log[2].cmd = "add"
        /\ kc.ret <=> (kc.log[2].exc = "" /\ kc.log[2].code = 0)

(* ======================== LSDP: claims C31, C37, C38 ================== *)
(* the announcements of the run that no later one of the same node and     *)
(* class followed                                                          *)
LastHeard ==
    {ls.heard[i] : i \in {i \in 1..Len(ls.heard) :
        \A j \in (i + 1)..Len(ls.heard) :
            ~(ls.heard[j].node = ls.heard[i].node
              /\ ls.heard[j].class_id = ls.heard[i].class_id)}}

(* C31: the list discover() returns has no duplicates, is in string order  *)
(* and holds valid addresses only; the devices are kept under the key      *)
(* 'node-id:class-id', the latest announcement of a key is the one kept,   *)
(* and nothing recorded in an earlier run is in the result.                *)
C31_LsdpResultFromThisRun ==
    /\ ls.pc \in {"listening", "returned"} =>
          /\ DOMAIN ls.devices =
                {a.node \o <<58>> \o Digits(a.class_id) : a \in LastHeard}
          /\ \A a \in LastHeard :
                ls.devices[a.node \o <<58>> \o Digits(a.class_id)].ip = a.ip
    /\ ls.pc = "returned" =>
          /\ \A i, j \in 1..Len(ls.result) :
                i < j => StrLess(IpStr(ls.result[i]), IpStr(ls.result[j]))
          /\ \A i \in 1..Len(ls.result) : validate_ip(ls.result[i])
          /\ Range(ls.result) = {a.ip : a \in {b \in LastHeard : validate_ip(b.ip)}}

C31_Witness ==
    /\ ls.pc = "returned" /\ ls.runs = 2
    /\ Len(ls.heard) = 2 /\ Cardinality(LastHeard) = 1
    /\ ls.result = <<IpC>>

(* C37: parsing a datagram raises nothing, whatever its bytes, and a       *)
(* datagram that cannot be decoded leaves the listen window open: the      *)
(* window ends with the timeout or with an error of the socket only.       *)
C37_MalformedDatagramKeepsWindowOpen ==
    /\ ls.pc = "parsing" => ~LoopRaises(ls.data, ls.offset)
    /\ ls.pc = "returned" => ls.ended \in {"timeout", "OSError", "socket error"}

(* C38: every pass of the message loop of _parse_packet that goes on to    *)
(* another pass has moved the offset forward.                              *)
C38_EveryPassAdvances ==
    (/\ ls.pc = "parsing"
     /\ ~LoopExits(ls.data, ls.offset)
     /\ ~LoopRaises(ls.data, ls.offset))
        => NextOffset(ls.data, ls.offset) > ls.offset

(* ========================= queue: claim C32 =========================== *)
Integer(w) == w \in {Digits(1), Digits(3)}
IntegerValue(w) == IF w = Digits(1) THEN 1 ELSE 3
(* the players that report a name holding w, whatever the case *)
NamedLike(w) ==
    {ip \in qu.up : \E i \in 0..(Len(QueueName(ip)) - Len(w)) :
        lower(SubSeq(QueueName(ip), i + 1, i + Len(w))) = lower(w)}

(* C32: `queue <name>` shows the queue of the players whose name matches,  *)
(* and `queue move <from> <to>` with two integers sends the move from ->   *)
(* to to every player that reports a name.                                 *)
C32_QueueArgumentsAsDocumented ==
    qu.op = "queue" =>
        /\ (Len(qu.words) = 1 /\ qu.words[1] \notin {WordShow, WordClear, WordMove})
              => /\ {r.ip : r \in Range(qu.requests)} = NamedLike(qu.words[1])
                 /\ \A r \in Range(qu.requests) : r.path = "/Queue"
        /\ (Len(qu.words) = 3 /\ qu.words[1] = WordMove
               /\ Integer(qu.words[2]) /\ Integer(qu.words[3]))
              => Range(qu.requests) =
                    {[ip |-> ip, path |-> "/Queue?move",
                      from |-> IntegerValue(qu.words[2]),
                      to |-> IntegerValue(qu.words[3])] : ip \in qu.up}

(* ===================== request hosts: claim C33 ======================= *)
(* C33: the host of every request sent to a player, and every address in   *)
(* its query, is a text that the IP policy accepts as it stands.           *)
C33_EveryHostSanitized ==
    \A i \in 1..Len(rq.requests) :
        LET r == rq.requests[i]
        IN /\ ~r.host.ws /\ validate_ip(r.host)
           /\ r.arg # Garbage => ~r.arg.ws /\ validate_ip(r.arg)

C33_Witness ==
    /\ rq.op = "sync break"
    /\ \E i \in 1..Len(rq.requests) :
          rq.requests[i].site = "sync break" /\ rq.requests[i].host = IpC

(* ==================== XML gate: claim C34 ============================= *)
(* C34: in a document the gate accepts no element other than the root has  *)
(* more than 100 attributes and the root has no more than 200.             *)
C34_AttributeCeilings ==
    (GateCall /\ ctl.out = "root") =>
        /\ ctl.res[1].attrs <= 200
        /\ ctl.res[1].childAttrs <= 100

(* ================ parallel queries: claims C35, C36 =================== *)
Writes == {"write ips", "write unifi_map"}
(* the calls submitted and not yet complete before position i of the log *)
InFlightAt(i) ==
    {w \in ParallelIps :
        /\ \E j \in 1..(i - 1) : th.log[j] = [e |-> "submit", by |-> w]
        /\ ~\E j \in 1..(i - 1) : th.log[j] = [e |-> "done", by |-> w]}

(* C35: ctl.ips and ctl.unifi_map are written by the calling thread only   *)
(* and only while no submitted get_device_info call is incomplete; the     *)
(* worker threads read them.                                               *)
C35_NoWriteWhileBatchInFlight ==
    \A i \in 1..Len(th.log) :
        th.log[i].e \in Writes => th.log[i].by = "main" /\ InFlightAt(i) = {}

C35_Witness ==
    /\ th.cmd = "diagnose" /\ th.pc = "done" /\ Len(th.ips) = 2
    /\ th.log[Len(th.log)].e = "write unifi_map"
    /\ \E i \in 1..Len(th.log) : th.log[i].e = "read unifi_map"

(* C36: the players are gone through in the string order of their          *)
(* addresses, whatever the order in which the calls completed.             *)
C36_OrderIsSortedOrder ==
    (th.pc = "done" /\ th.ips # <<>>) =>
        /\ Len(th.order) = Len(th.ips)
        /\ \A i, j \in 1..Len(th.order) :
              i < j => StrLess(IpStr(th.order[i]), IpStr(th.order[j]))

(* ================ shared rate limiter: claim C39 ====================== *)
(* C39: with several threads calling wait_if_needed, any two returns for   *)
(* the same key are at least min_delay apart.                              *)
C39_ReturnsSpacedAcrossThreads ==
    \A i, j \in 1..Len(rm.returns) :
        (i < j /\ rm.returns[i].key = rm.returns[j].key)
            => rm.returns[j].at - rm.returns[i].at >= 2

(* ==================== discovery cache: claim C40 ====================== *)
(* a step that is an unforced discover() made right after a forced one,    *)
(* less than CACHE_TTL after it                                            *)
UnforcedAfterForced ==
    /\ run.called /\ run.forced
    /\ run'.called /\ ~run'.forced
    /\ now' = now
    /\ now - Epoch < cfgTTL

(* C40: an unforced discover() that follows a forced one within the cache   *)
(* TTL leaves the known-IP list as the forced scan set it, an empty list    *)
(* included.                                                               *)
C40_UnforcedKeepsForcedResult ==
    [][UnforcedAfterForced => ips' = ips]_vars

====
